---- MODULE Spec2Model ----
(***************************************************************************)
(* The per-replica replication queue (ReplicatedMergeTreeQueue): its       *)
(* in-memory state, the coordinator nodes it reads and writes, and its     *)
(* operations, one action per step between two lock or coordinator         *)
(* boundaries.                                                             *)
(***************************************************************************)
EXTENDS Integers, Sequences, FiniteSets, TLC

\* ------------------------------------------------------------------ bounds
\* Most entries the shared log holds in the interleaving specifications.
MaxLog == 2
\* Most mutation nodes ever created under <root>/mutations.
MaxMutations == 2

\* ------------------------------------------------------- program constants
\* static constexpr auto MAX_MULTI_OPS = 100;
MAX_MULTI_OPS == 100
\* padIndex: std::string(10 - index_str.size(), '0') + index_str
PadWidth == 10
\* MergeTreePartInfo gap_part_info(..., 999999999)
GapLevel == 999999999

\* ------------------------------------------------------- strings of digits
\* toString(UInt64): the decimal digits, most significant first.
RECURSIVE toString(_)
toString(n) ==
    IF n < 10 THEN <<n>> ELSE Append(toString(n \div 10), n % 10)

\* parse<UInt64>(s): the number a digit string reads as (0 for no digits).
RECURSIVE parseUInt64(_)
parseUInt64(s) ==
    IF s = <<>> THEN 0
    ELSE 10 * parseUInt64(SubSeq(s, 1, Len(s) - 1)) + s[Len(s)]

\* padIndex(index): toString(index) left-padded with '0' to PadWidth characters.
padIndex(index) ==
    LET index_str == toString(index)
    IN  [i \in 1..(PadWidth - Len(index_str)) |-> 0] \o index_str

\* std::string operator< on two digit strings (lexicographic).
RECURSIVE DigitsLess(_, _)
DigitsLess(a, b) ==
    IF b = <<>> THEN FALSE
    ELSE IF a = <<>> THEN TRUE
    ELSE IF a[1] # b[1] THEN a[1] < b[1]
    ELSE DigitsLess(Tail(a), Tail(b))

\* A child name of <root>/log is <<prefix, digits>>: "log-" and the padded index,
\* or a foreign node "tmp-..." that does not start with "log-".
LogPrefix == "log-"
JunkPrefix == "tmp-"
LogName(index) == <<LogPrefix, padIndex(index)>>
JunkName == <<JunkPrefix, <<>> >>

\* startsWith(entry, "log-")
startsWithLog(name) == name[1] = LogPrefix

\* entry < min_log_entry, as strings: 'l' < 't' decides between the prefixes.
NameLess(a, b) ==
    IF a[1] = b[1] THEN DigitsLess(a[2], b[2])
    ELSE a[1] = LogPrefix /\ b[1] = JunkPrefix

\* parse<UInt64>(entry.substr(strlen("log-")))
NameIndex(name) == parseUInt64(name[2])

\* std::sort of a set of names with the comparison turned round (a faulty
\* variant).
RECURSIVE SortNames_desc(_)
SortNames_desc(S) ==
    IF S = {} THEN <<>>
    ELSE LET half == Cardinality(S) \div 2
             mid == CHOOSE x \in S :
                        Cardinality({y \in S : NameLess(y, x)}) = half
             low == {y \in S : NameLess(y, mid)}
         IN  SortNames_desc(S \ (low \cup {mid})) \o <<mid>> \o SortNames_desc(low)

\* std::sort of a set of names.
RECURSIVE SortNames(_)
SortNames(S) ==
    IF S = {} THEN <<>>
    ELSE LET half == Cardinality(S) \div 2
             mid == CHOOSE x \in S :
                        Cardinality({y \in S : NameLess(y, x)}) = half
             low == {y \in S : NameLess(y, mid)}
         IN  SortNames(low) \o <<mid>> \o SortNames(S \ (low \cup {mid}))

\* ------------------------------------------------------- part-name algebra
\* A part name is <<partition_id, min_block, max_block, level>>; the empty
\* string is the empty tuple.
NoName == <<>>

\* MergeTreePartInfo::fromPartName
fromPartName(name) ==
    [partition_id |-> name[1], min_block |-> name[2], max_block |-> name[3],
     level |-> name[4], version |-> 0]

\* MergeTreePartInfo::contains
contains(outer, inner) ==
    /\ outer.partition_id = inner.partition_id
    /\ outer.min_block <= inner.min_block
    /\ outer.max_block >= inner.max_block
    /\ outer.level >= inner.level

\* static MergeTreePartInfo::contains(outer_name, inner_name, format_version)
containsName(outer_name, inner_name) ==
    contains(fromPartName(outer_name), fromPartName(inner_name))

\* --------------------------------------------------------- virtual-part set
\* ActiveDataPartSet::add
add(set, name) ==
    (set \ {n \in set : n # name /\ containsName(name, n)}) \cup {name}

\* ActiveDataPartSet::getContainingPart: the stored name containing info, or
\* the empty name.
getContainingPart(set, info) ==
    LET holders == {n \in set : contains(fromPartName(n), info)}
    IN  IF holders = {} THEN NoName
        ELSE CHOOSE n \in holders : \A m \in holders : containsName(n, m)

\* ActiveDataPartSet::getPartsCoveredBy
getPartsCoveredBy(set, info) ==
    {n \in set : contains(info, fromPartName(n))}

\* A set of parts is covered by another: each name is in it or inside one of it.
CoveredBy(small, big) ==
    \A n \in small : \E m \in big : containsName(m, n)

\* ------------------------------------------------------------ the universe
\* Part names the log entries, local parts and callers mention.
P0 == <<"a", 0, 0, 0>>
P1 == <<"a", 1, 1, 0>>
P2 == <<"a", 2, 2, 0>>
P01 == <<"a", 0, 1, 1>>
RangeA == <<"a", 0, 2, GapLevel>>
PB == <<"b", 0, 0, 0>>

\* Serialized log entries (what LogEntry::parse reads the fields from).
\* The last field is the create time written in the body (0: none written).
Body(type, name, parts, create_time) ==
    [type |-> type, new_part_name |-> name, parts_to_merge |-> parts,
     create_time |-> create_time]
GetP0 == Body("GET_PART", P0, <<>>, 1)
GetP1 == Body("GET_PART", P1, <<>>, 0)
GetP01 == Body("GET_PART", P01, <<>>, 2)
MergeP01 == Body("MERGE_PARTS", P01, <<P0, P1>>, 2)
GetPB == Body("GET_PART", PB, <<>>, 0)
DropA == Body("DROP_RANGE", RangeA, <<>>, 1)
ClearA == Body("CLEAR_COLUMN", RangeA, <<>>, 1)

\* The entries other replicas append to the shared log.
LogBodies == {GetP0, MergeP01, DropA}

\* ------------------------------------------------------------------- state
VARIABLES
    \* coordinator
    zk_log,             \* <root>/log: the body of log-<i> is zk_log[i + 1]
    zk_log_junk,        \* <root>/log holds a child that does not start with log-
    zk_log_pointer,     \* <replica>/log_pointer: a digit string, or empty
    zk_queue,           \* <replica>/queue: sequence number -> body
    zk_queue_seq,       \* the next sequence number of <replica>/queue/queue-
    zk_mutations,       \* <root>/mutations: the node numbers present
    zk_mut_seq,         \* the next sequence number of <root>/mutations
    zk_temp,            \* <root>/temp: block numbers whose abandonable lock lives
    zk_block_numbers,   \* <root>/block_numbers/<partition>: [partition, number]
    zk_quorum_last,     \* <root>/quorum/last_part
    zk_quorum_status,   \* <root>/quorum/status (its part_name), or empty
    \* memory
    entries,            \* the LogEntry objects: id -> fields
    queue,              \* the ids of the queued entries, front first
    handles,            \* live CurrentlyExecuting handles: id -> what its thread does
    future_parts,
    virtual_parts,
    next_virtual_parts,
    current_inserts,    \* set of <<partition, block number>>
    last_quorum_part,
    inprogress_quorum_part,
    mutations,          \* sequence of [znode_name, block_numbers]
    mutations_by_partition, \* set of [partition, number, mutation]
    inserts_by_time,    \* the ids of the entries held by the set
    min_unprocessed_insert_time,
    max_processed_insert_time,
    mutex,              \* the thread holding the state mutex, or "free"
    \* threads
    pull,               \* pullLogsToQueue: position and locals
    um,                 \* updateMutations: caller, position and locals
    ld,                 \* load: position and locals
    rm,                 \* remove(zookeeper, part_name): position and locals
    rr,                 \* removePartProducingOpsInRange: position and locals
    merge_call,         \* the last call of canMergeParts and its answer
    mutate_call,        \* the last call of canMutatePart or getMutationCommands
    \* history
    created,            \* log indices in the order pulls created their queue nodes
    initial_index,      \* the first numeric value of log_pointer (-1: none yet)
    purged,             \* mutation numbers removed from the local list
    pulled_seen         \* mutation nodes listed by the pulls that inserted entries

zkVars == <<zk_log, zk_log_junk, zk_log_pointer, zk_queue, zk_queue_seq,
            zk_mutations, zk_mut_seq, zk_temp, zk_block_numbers,
            zk_quorum_last, zk_quorum_status>>
execVars == <<handles, future_parts>>
partVars == <<virtual_parts, next_virtual_parts, current_inserts,
              last_quorum_part, inprogress_quorum_part>>
mutVars == <<mutations, mutations_by_partition>>
timeVars == <<inserts_by_time, min_unprocessed_insert_time,
              max_processed_insert_time>>
histVars == <<merge_call, mutate_call, created, initial_index, purged,
              pulled_seen>>
vars == <<zkVars, entries, queue, execVars, partVars, mutVars, timeVars,
          mutex, pull, um, ld, rm, rr, histVars>>

\* ----------------------------------------------------------------- entries
NoZnode == -1

\* LogEntry::parse: the fields read from a body; the rest as constructed.
\* origin and moved are history: who
\* inserted the entry, and whether selectEntryToProcess or
\* moveSiblingPartsForMergeToEndOfQueue has spliced it.
LogEntry_parse(data) ==
    [znode_name |-> NoZnode, type |-> data.type,
     new_part_name |-> data.new_part_name,
     parts_to_merge |-> data.parts_to_merge,
     create_time |-> data.create_time,
     currently_executing |-> FALSE, actual_new_part_name |-> NoName,
     exception |-> FALSE,
     num_postponed |-> 0, origin |-> "none", moved |-> FALSE]

\* The address of a newly allocated LogEntry: the least id not in use.
NewId == CHOOSE i \in 1..(Cardinality(DOMAIN entries) + 1) :
            /\ i \notin DOMAIN entries
            /\ \A j \in 1..(i - 1) : j \in DOMAIN entries

RECURSIVE AddAll(_, _)
AddAll(set, names) ==
    IF names = <<>> THEN set ELSE AddAll(add(set, Head(names)), Tail(names))

\* The key inserts_by_time orders its entries by: create_time, then znode_name.
ByTime(entry) == <<entry.create_time, entry.znode_name>>

\* inserts_by_time.insert(entry): a set holds one element per key.
SetInsert(set, id, entry) ==
    IF \E x \in set : ByTime(entries[x]) = ByTime(entry) THEN set
    ELSE set \cup {id}

\* inserts_by_time.erase(entry): the element with the entry's key goes.
SetErase(set, entry) ==
    {x \in set : ByTime(entries[x]) # ByTime(entry)}

\* *inserts_by_time.begin(): the element with the least key.
SetBegin(set) ==
    CHOOSE x \in set : \A y \in set :
        \/ entries[x].create_time < entries[y].create_time
        \/ /\ entries[x].create_time = entries[y].create_time
           /\ entries[x].znode_name <= entries[y].znode_name

\* The lowering of min_unprocessed_insert_time by a GET_PART entry's create_time.
LowerMin(min, entry) ==
    IF /\ entry.type = "GET_PART"
       /\ entry.create_time # 0
       /\ (min = 0 \/ entry.create_time < min)
    THEN entry.create_time ELSE min

\* insertUnlocked, the part for GET_PART entries (lines 108-117).
insertTimes(entry) ==
    /\ inserts_by_time' = IF entry.type = "GET_PART"
                          THEN SetInsert(inserts_by_time, NewId, entry)
                          ELSE inserts_by_time
    /\ min_unprocessed_insert_time' =
           LowerMin(min_unprocessed_insert_time, entry)
    /\ max_processed_insert_time' = max_processed_insert_time

\* insertUnlocked, DROP_RANGE pushed behind the others (a faulty variant).
insertUnlocked_back(entry) ==
    /\ next_virtual_parts' = add(next_virtual_parts, entry.new_part_name)
    /\ entries' = entries @@ (NewId :> entry)
    /\ queue' = Append(queue, NewId)
    /\ insertTimes(entry)

\* insertUnlocked, every entry pushed to the front (a faulty variant).
insertUnlocked_front(entry) ==
    /\ next_virtual_parts' = add(next_virtual_parts, entry.new_part_name)
    /\ entries' = entries @@ (NewId :> entry)
    /\ queue' = <<NewId>> \o queue
    /\ insertTimes(entry)

\* insertUnlocked
insertUnlocked(entry) ==
    /\ next_virtual_parts' = add(next_virtual_parts, entry.new_part_name)
    /\ entries' = entries @@ (NewId :> entry)
    /\ queue' = IF entry.type # "DROP_RANGE"
                THEN Append(queue, NewId)
                ELSE <<NewId>> \o queue
    /\ insertTimes(entry)

\* ------------------------------------------------- the coordinator's side
\* Another replica appends an entry to the shared log.
AppendLog ==
    /\ Len(zk_log) < MaxLog
    /\ \E data \in LogBodies : zk_log' = Append(zk_log, data)
    /\ UNCHANGED <<zk_log_junk, zk_log_pointer, zk_queue, zk_queue_seq,
                   zk_mutations, zk_mut_seq, zk_temp, zk_block_numbers,
                   zk_quorum_last, zk_quorum_status>>
    /\ UNCHANGED <<entries, queue, execVars, partVars, mutVars, mutex,
                   pull, um, ld, rm, rr, timeVars, histVars>>

\* Most block numbers the inserts of other replicas take.
MaxBlocks == 3

\* An insert on another replica takes the next block number of partition a
\* (a sequential node, so above every number taken before) with its lock.
AllocateBlockNumber ==
    /\ LET taken == {b.number : b \in zk_block_numbers}
                       \cup {zk_log[j].new_part_name[2] : j \in 1..Len(zk_log)}
           number == Cardinality(taken)
       IN  /\ taken = 0..(number - 1)
           /\ number < MaxBlocks
           /\ zk_temp' = zk_temp \cup {number}
           /\ zk_block_numbers' = zk_block_numbers
                                     \cup {[partition |-> "a", number |-> number]}
    /\ UNCHANGED <<zk_log, zk_log_junk, zk_log_pointer, zk_queue, zk_queue_seq,
                   zk_mutations, zk_mut_seq, zk_quorum_last, zk_quorum_status>>
    /\ UNCHANGED <<entries, queue, execVars, partVars, mutVars, mutex,
                   pull, um, ld, rm, rr, timeVars, histVars>>

\* The insert commits: its log entry is appended and its block number node
\* and lock are removed in one multi-request.
CommitInsert ==
    /\ \E number \in zk_temp :
          /\ zk_log' = Append(zk_log, Body("GET_PART", <<"a", number, number, 0>>,
                                           <<>>, 0))
          /\ zk_temp' = zk_temp \ {number}
          /\ zk_block_numbers' = zk_block_numbers
                                    \ {[partition |-> "a", number |-> number]}
    /\ UNCHANGED <<zk_log_junk, zk_log_pointer, zk_queue, zk_queue_seq,
                   zk_mutations, zk_mut_seq, zk_quorum_last, zk_quorum_status>>
    /\ UNCHANGED <<entries, queue, execVars, partVars, mutVars, mutex,
                   pull, um, ld, rm, rr, timeVars, histVars>>

\* The insert fails: its lock goes away, its block number node stays.
AbandonInsert ==
    /\ \E number \in zk_temp : zk_temp' = zk_temp \ {number}
    /\ UNCHANGED <<zk_log, zk_log_junk, zk_log_pointer, zk_queue, zk_queue_seq,
                   zk_mutations, zk_mut_seq, zk_block_numbers, zk_quorum_last,
                   zk_quorum_status>>
    /\ UNCHANGED <<entries, queue, execVars, partVars, mutVars, mutex,
                   pull, um, ld, rm, rr, timeVars, histVars>>

\* Something creates a child of <root>/log whose name does not start with log-.
CreateLogJunk ==
    /\ ~zk_log_junk
    /\ zk_log_junk' = TRUE
    /\ UNCHANGED <<zk_log, zk_log_pointer, zk_queue, zk_queue_seq,
                   zk_mutations, zk_mut_seq, zk_temp, zk_block_numbers,
                   zk_quorum_last, zk_quorum_status>>
    /\ UNCHANGED <<entries, queue, execVars, partVars, mutVars, mutex,
                   pull, um, ld, rm, rr, timeVars, histVars>>

\* A mutation is created under <root>/mutations (sequential node).
CreateMutation ==
    /\ zk_mut_seq < MaxMutations
    /\ zk_mutations' = zk_mutations \cup {zk_mut_seq}
    /\ zk_mut_seq' = zk_mut_seq + 1
    /\ UNCHANGED <<zk_log, zk_log_junk, zk_log_pointer, zk_queue, zk_queue_seq,
                   zk_temp, zk_block_numbers, zk_quorum_last, zk_quorum_status>>
    /\ UNCHANGED <<entries, queue, execVars, partVars, mutVars, mutex,
                   pull, um, ld, rm, rr, timeVars, histVars>>

\* The oldest mutation node is cleaned up.
CleanMutation ==
    /\ zk_mutations # {}
    /\ zk_mutations' = zk_mutations \ {CHOOSE m \in zk_mutations :
                                          \A n \in zk_mutations : m <= n}
    /\ UNCHANGED <<zk_log, zk_log_junk, zk_log_pointer, zk_queue, zk_queue_seq,
                   zk_mut_seq, zk_temp, zk_block_numbers, zk_quorum_last,
                   zk_quorum_status>>
    /\ UNCHANGED <<entries, queue, execVars, partVars, mutVars, mutex,
                   pull, um, ld, rm, rr, timeVars, histVars>>

\* The body of mutation node m: its block number in partition "a".
MutationBlockNumbers(m) == {<<"a", m + 1>>}

\* ReplicatedMergeTreeMutationEntry::parse
MutationEntry_parse(m) ==
    [znode_name |-> m, block_numbers |-> MutationBlockNumbers(m),
     commands |-> <<[mutation |-> m, command |-> 1],
                    [mutation |-> m, command |-> 2]>>]

\* --------------------------------------------------------- updateMutations
PullIdle ==
    [pc |-> "idle", index_str |-> <<>>, listed |-> {}, log_entries |-> <<>>,
     index |-> 0, min_log_entry |-> <<>>, i |-> 0, copied |-> <<>>,
     responses |-> <<>>, k |-> 1, locks_seen |-> {},
     new_current_inserts |-> {}, new_last_quorum_part |-> NoName,
     new_inprogress_quorum_part |-> NoName, new_virtual_parts |-> <<>>,
     mut_seen |-> {}, error |-> "none"]

UmIdle ==
    [owner |-> "none", pc |-> "idle", entries_in_zk |-> <<>>,
     entries_to_load |-> <<>>, new_mutations |-> <<>>]

\* std::sort of a set of numbered node names.
RECURSIVE SortNumbers(_)
SortNumbers(S) ==
    IF S = {} THEN <<>>
    ELSE LET half == Cardinality(S) \div 2
             mid == CHOOSE x \in S : Cardinality({y \in S : y < x}) = half
             low == {y \in S : y < mid}
         IN  SortNumbers(low) \o <<mid>> \o SortNumbers(S \ (low \cup {mid}))

\* How updateMutations hands control back: pullLogsToQueue goes on to the
\* pointer, the mutation-updating thread is done.
UmReturn ==
    /\ um' = UmIdle
    /\ pull' = IF um.owner = "pull" THEN [pull EXCEPT !.pc = "pointer"] ELSE pull

\* getChildren(<root>/mutations) and the sort, under update_mutations_mutex.
UmList ==
    /\ um.owner = "none"
    /\ \E t \in {"pull", "updater"} :
          /\ t = "pull" => pull.pc = "mutations"
          /\ um' = [UmIdle EXCEPT !.owner = t, !.pc = "compare",
                                  !.entries_in_zk = SortNumbers(zk_mutations)]
          /\ pull' = IF t = "pull"
                     THEN [pull EXCEPT !.mut_seen = zk_mutations] ELSE pull
    /\ UNCHANGED <<zkVars, entries, queue, execVars, partVars, mutVars, mutex,
                   ld, rm, rr, timeVars, histVars>>

\* The local mutations that stay: the obsolete front ones are dropped.
RECURSIVE DropObsolete(_, _)
DropObsolete(list, front) ==
    IF list # <<>> /\ Head(list).znode_name < front
    THEN DropObsolete(Tail(list), front)
    ELSE list

\* The purge leaving the index as it is (a faulty variant).
EraseIndex_keep(index, dropped) == index

\* in_partition.erase(kv.second) for every block number of the dropped mutations.
EraseIndex(index, dropped) ==
    {x \in index :
        ~\E j \in 1..Len(dropped) :
            <<x.partition, x.number>> \in dropped[j].block_numbers}

\* The names after mutations.back(), taken from the back of the listing.
RECURSIVE NewerThan(_, _)
NewerThan(listing, back) ==
    IF listing # <<>> /\ listing[Len(listing)] > back
    THEN Append(NewerThan(SubSeq(listing, 1, Len(listing) - 1), back),
                listing[Len(listing)])
    ELSE <<>>

\* entries_to_load, loading every listed name again (a faulty variant).
EntriesToLoad_none(kept, listing) == <<>>

\* entries_to_load
EntriesToLoad(kept, listing) ==
    IF kept = <<>> THEN listing
    ELSE NewerThan(listing, kept[Len(kept)].znode_name)

\* The first block under the state mutex: purge and choose what to load.
UmCompare ==
    /\ um.pc = "compare"
    /\ mutex = "free"
    /\ LET zk == um.entries_in_zk
           kept == IF zk = <<>> THEN <<>> ELSE DropObsolete(mutations, Head(zk))
           dropped == SubSeq(mutations, 1, Len(mutations) - Len(kept))
           to_load == EntriesToLoad(kept, zk)
       IN  /\ mutations' = kept
           /\ mutations_by_partition' =
                 IF zk = <<>> THEN {}
                 ELSE EraseIndex(mutations_by_partition, dropped)
           /\ purged' = purged \cup {dropped[j].znode_name : j \in 1..Len(dropped)}
           /\ IF to_load = <<>>
              THEN UmReturn
              ELSE /\ um' = [um EXCEPT !.pc = "fetch", !.entries_to_load = to_load]
                   /\ pull' = pull
    /\ UNCHANGED <<zkVars, entries, queue, execVars, partVars, mutex, ld,
                   rm, rr, timeVars, merge_call, mutate_call, created, initial_index, pulled_seen>>

\* asyncGet of every entry to load; a node cleaned up meanwhile makes get throw,
\* which ends updateMutations and the pullLogsToQueue that called it.
UmFetch ==
    /\ um.pc = "fetch"
    /\ LET to_load == um.entries_to_load
           found == \A j \in 1..Len(to_load) : to_load[j] \in zk_mutations
       IN  \E ok \in BOOLEAN :
             IF ok /\ found
             THEN /\ um' = [um EXCEPT !.pc = "append",
                               !.new_mutations =
                                   [j \in 1..Len(to_load) |->
                                       MutationEntry_parse(to_load[j])]]
                  /\ pull' = pull
             ELSE /\ um' = UmIdle
                  /\ pull' = IF um.owner = "pull" THEN PullIdle ELSE pull
    /\ UNCHANGED <<zkVars, entries, queue, execVars, partVars, mutVars, mutex,
                   ld, rm, rr, timeVars, histVars>>

\* The emplace loop, the index built anew from the new mutations (a faulty
\* variant).
RECURSIVE EmplaceAll_fresh(_, _)
EmplaceAll_fresh(index, pairs) ==
    IF pairs = <<>> THEN {}
    ELSE LET x == Head(pairs)
         IN  {x} \cup EmplaceAll_fresh(index, Tail(pairs))

\* mutations_by_partition[kv.first].emplace(kv.second, &mutation)
RECURSIVE EmplaceAll(_, _)
EmplaceAll(index, pairs) ==
    IF pairs = <<>> THEN index
    ELSE LET x == Head(pairs)
         IN  EmplaceAll(
                 IF \E y \in index : y.partition = x.partition /\ y.number = x.number
                 THEN index ELSE index \cup {x},
                 Tail(pairs))

\* The (partition, block number, mutation) triples of new mutations, in order.
RECURSIVE IndexPairs(_)
IndexPairs(new) ==
    IF new = <<>> THEN <<>>
    ELSE LET m == Head(new)
             RECURSIVE OfSet(_)
             OfSet(S) ==
                 IF S = {} THEN <<>>
                 ELSE LET kv == CHOOSE x \in S : TRUE
                      IN  <<[partition |-> kv[1], number |-> kv[2],
                             mutation |-> m.znode_name]>> \o OfSet(S \ {kv})
         IN  OfSet(m.block_numbers) \o IndexPairs(Tail(new))

\* The second block under the state mutex: index and splice the new mutations.
UmAppend ==
    /\ um.pc = "append"
    /\ mutex = "free"
    /\ mutations_by_partition' =
          EmplaceAll(mutations_by_partition, IndexPairs(um.new_mutations))
    /\ mutations' = mutations \o um.new_mutations
    /\ UmReturn
    /\ UNCHANGED <<zkVars, entries, queue, execVars, partVars, mutex, ld,
                   rm, rr, timeVars, histVars>>

\* --------------------------------------------------------- pullLogsToQueue
\* getChildren(<root>/log)
LogChildren ==
    {LogName(i) : i \in 0..(Len(zk_log) - 1)}
        \cup (IF zk_log_junk THEN {JunkName} ELSE {})

\* std::min_element
MinName(S) == CHOOSE x \in S : \A y \in S : ~NameLess(y, x)

\* The current chunk: log_entries[i .. end), and its last name.
ChunkEnd(p) ==
    IF p.i + MAX_MULTI_OPS >= Len(p.log_entries)
    THEN Len(p.log_entries) ELSE p.i + MAX_MULTI_OPS
Chunk(p) == SubSeq(p.log_entries, p.i + 1, ChunkEnd(p))
LastEntry(p) == p.log_entries[ChunkEnd(p)]

\* The children not before min_log_entry, every name kept (a faulty variant).
NotBefore_all(names, min_log_entry) == names

\* remove_if(entry < min_log_entry)
NotBefore(names, min_log_entry) ==
    {n \in names : ~NameLess(n, min_log_entry)}

\* The lock on pull_logs_to_queue_mutex and the read of log_pointer.
PullStart ==
    /\ pull.pc = "idle"
    /\ pull' = [PullIdle EXCEPT !.pc = "list", !.index_str = zk_log_pointer]
    /\ UNCHANGED <<zkVars, entries, queue, execVars, partVars, mutVars, mutex,
                   um, ld, rm, rr, timeVars, histVars>>

\* getChildren(<root>/log); updateMutations is called next.
PullListLog ==
    /\ pull.pc = "list"
    /\ pull' = [pull EXCEPT !.pc = "mutations", !.listed = LogChildren]
    /\ UNCHANGED <<zkVars, entries, queue, execVars, partVars, mutVars, mutex,
                   um, ld, rm, rr, timeVars, histVars>>

\* A coordinator request of pullLogsToQueue fails: the exception leaves the call.
PullThrow ==
    /\ pull.pc \in {"list", "pointer", "fetch", "parse", "multi", "temp",
                    "blocks", "lookahead"}
                   \cup (IF um.owner # "pull" THEN {"mutations"} ELSE {})
    /\ pull' = PullIdle
    /\ UNCHANGED <<zkVars, entries, queue, execVars, partVars, mutVars, mutex,
                   um, ld, rm, rr, timeVars, histVars>>

\* The pointer: initialised to the first log entry when empty, parsed otherwise;
\* then the entries before it are dropped and the rest sorted.
PullPointer ==
    /\ pull.pc = "pointer"
    /\ LET empty == pull.index_str = <<>>
           bad == empty /\ pull.listed # {} /\ ~startsWithLog(MinName(pull.listed))
           index == IF empty
                    THEN (IF pull.listed = {} THEN 0
                          ELSE NameIndex(MinName(pull.listed)))
                    ELSE parseUInt64(pull.index_str)
           min_log_entry == LogName(index)
           log_entries == SortNames(NotBefore(pull.listed, min_log_entry))
       IN  IF bad
           THEN /\ pull' = PullIdle
                /\ UNCHANGED <<zk_log_pointer, rm, rr, merge_call, mutate_call, initial_index>>
           ELSE /\ zk_log_pointer' = IF empty THEN toString(index)
                                     ELSE zk_log_pointer
                /\ initial_index' = IF empty /\ initial_index = -1
                                    THEN index ELSE initial_index
                /\ pull' = [pull EXCEPT
                              !.pc = IF log_entries = <<>> THEN "temp" ELSE "fetch",
                              !.index = index, !.min_log_entry = min_log_entry,
                              !.log_entries = log_entries, !.i = 0]
    /\ UNCHANGED <<zk_log, zk_log_junk, zk_queue, zk_queue_seq, zk_mutations,
                   zk_mut_seq, zk_temp, zk_block_numbers, zk_quorum_last,
                   zk_quorum_status>>
    /\ UNCHANGED <<entries, queue, execVars, partVars, mutVars, mutex, um, ld,
                   rm, rr, timeVars, merge_call, mutate_call, created, purged, pulled_seen>>

\* The asyncGet of the chunk's bodies without the check of its last name (a
\* faulty variant).
PullFetch_unchecked ==
    /\ pull.pc = "fetch"
    /\ LET chunk == Chunk(pull)
       IN  pull' = [pull EXCEPT
                      !.pc = "parse", !.k = 1,
                      !.copied = [j \in 1..Len(chunk) |->
                                     zk_log[NameIndex(chunk[j]) + 1]]]
    /\ UNCHANGED <<zkVars, entries, queue, execVars, partVars, mutVars, mutex,
                   um, ld, rm, rr, timeVars, histVars>>

\* The check of the chunk's last name and the asyncGet of its bodies.
PullFetch ==
    /\ pull.pc = "fetch"
    /\ LET chunk == Chunk(pull)
       IN  IF ~startsWithLog(LastEntry(pull))
           THEN pull' = [PullIdle EXCEPT
                           !.error = "UNEXPECTED_NODE_IN_ZOOKEEPER",
                           !.i = pull.i]
           ELSE pull' = [pull EXCEPT
                           !.pc = "parse", !.k = 1,
                           !.copied = [j \in 1..Len(chunk) |->
                                          zk_log[NameIndex(chunk[j]) + 1]]]
    /\ UNCHANGED <<zkVars, entries, queue, execVars, partVars, mutVars, mutex,
                   um, ld, rm, rr, timeVars, histVars>>

\* future.get() of one body, its parse and the create request; for a GET_PART
\* entry the state mutex is taken and min_unprocessed_insert_time lowered.
PullParse ==
    /\ pull.pc = "parse"
    /\ LET entry == LogEntry_parse(pull.copied[pull.k])
           last == pull.k = Len(pull.copied)
       IN  /\ entry.type = "GET_PART" => mutex = "free"
           /\ min_unprocessed_insert_time' =
                  LowerMin(min_unprocessed_insert_time, entry)
           /\ pull' = IF last THEN [pull EXCEPT !.pc = "multi", !.k = 1]
                      ELSE [pull EXCEPT !.k = pull.k + 1]
    /\ UNCHANGED <<zkVars, entries, queue, execVars, partVars, mutVars,
                   inserts_by_time, max_processed_insert_time, mutex, um, ld,
                   rm, rr, histVars>>

\* The multi-request: one sequential create per body and the set of log_pointer.
PullMulti ==
    /\ pull.pc = "multi"
    /\ LET n == Len(pull.copied)
           chunk == Chunk(pull)
           last_entry_index == NameIndex(LastEntry(pull))
       IN  /\ zk_queue' = zk_queue @@
                 [q \in zk_queue_seq..(zk_queue_seq + n - 1) |->
                     pull.copied[q - zk_queue_seq + 1]]
           /\ zk_queue_seq' = zk_queue_seq + n
           /\ zk_log_pointer' = toString(last_entry_index + 1)
           /\ created' = created \o [j \in 1..n |-> NameIndex(chunk[j])]
           /\ pull' = [pull EXCEPT
                         !.pc = "ram", !.k = 1,
                         !.responses = [j \in 1..n |-> zk_queue_seq + j - 1]]
    /\ UNCHANGED <<zk_log, zk_log_junk, zk_mutations, zk_mut_seq, zk_temp,
                   zk_block_numbers, zk_quorum_last, zk_quorum_status>>
    /\ UNCHANGED <<entries, queue, execVars, partVars, mutVars, mutex, um, ld,
                   rm, rr, timeVars, merge_call, mutate_call, initial_index, purged, pulled_seen>>

\* The block under the state mutex after the commit, one copied entry per step:
\* the first step takes the mutex, the last one releases it.
PullInsert ==
    /\ pull.pc = "ram"
    /\ mutex = IF pull.k = 1 THEN "free" ELSE "pull"
    /\ LET n == Len(pull.copied)
           last == pull.k = n
           last_entry_index == NameIndex(LastEntry(pull))
           entry == [LogEntry_parse(pull.copied[pull.k]) EXCEPT
                        !.znode_name = pull.responses[pull.k],
                        !.origin = "pull"]
           next_i == pull.i + MAX_MULTI_OPS
       IN  /\ insertUnlocked(entry)
           /\ mutex' = IF last THEN "free" ELSE "pull"
           /\ pulled_seen' = pulled_seen \cup pull.mut_seen
           /\ pull' = IF ~last
                      THEN [pull EXCEPT
                              !.k = pull.k + 1,
                              !.min_log_entry = LogName(last_entry_index + 1)]
                      ELSE [pull EXCEPT
                              !.k = 1, !.copied = <<>>, !.responses = <<>>,
                              !.min_log_entry = LogName(last_entry_index + 1),
                              !.i = next_i,
                              !.pc = IF next_i < Len(pull.log_entries)
                                     THEN "fetch" ELSE "temp"]
    /\ UNCHANGED <<zkVars, execVars, virtual_parts, current_inserts,
                   last_quorum_part, inprogress_quorum_part, mutVars, um, ld,
                   rm, rr, merge_call, mutate_call, created, initial_index, purged>>

\* The block under the state mutex throws and the handler goes on with the
\* rest of the call (a faulty variant).
PullTerminate_caught ==
    /\ pull.pc = "ram"
    /\ mutex = IF pull.k = 1 THEN "free" ELSE "pull"
    /\ pull' = [pull EXCEPT !.pc = "temp", !.k = 1, !.copied = <<>>,
                            !.responses = <<>>]
    /\ mutex' = "free"
    /\ UNCHANGED <<zkVars, entries, queue, execVars, partVars, mutVars, um, ld,
                   rm, rr, timeVars, histVars>>

\* The block under the state mutex throws (lines 445-450): std::terminate.
\* The process ends inside the block, so no block under the mutex runs again.
PullTerminate ==
    /\ pull.pc = "ram"
    /\ mutex = IF pull.k = 1 THEN "free" ELSE "pull"
    /\ pull' = [pull EXCEPT !.pc = "terminated"]
    /\ mutex' = "pull"
    /\ UNCHANGED <<zkVars, entries, queue, execVars, partVars, mutVars, um, ld,
                   rm, rr, timeVars, histVars>>

\* loadCurrentInserts: the children of <root>/temp.
PullTemp ==
    /\ pull.pc = "temp"
    /\ pull' = [pull EXCEPT !.locks_seen = zk_temp,
                            !.new_current_inserts = {},
                            !.pc = IF zk_temp = {} THEN "lookahead" ELSE "blocks"]
    /\ UNCHANGED <<zkVars, entries, queue, execVars, partVars, mutVars, mutex,
                   um, ld, rm, rr, timeVars, histVars>>

\* loadCurrentInserts: the block numbers whose body is a lock seen alive.
PullBlocks ==
    /\ pull.pc = "blocks"
    /\ pull' = [pull EXCEPT
                  !.pc = "lookahead",
                  !.new_current_inserts =
                      {<<b.partition, b.number>> : b \in
                          {x \in zk_block_numbers : x.number \in pull.locks_seen}}]
    /\ UNCHANGED <<zkVars, entries, queue, execVars, partVars, mutVars, mutex,
                   um, ld, rm, rr, timeVars, histVars>>

\* Every order a listing may come in.
RECURSIVE Orders(_)
Orders(S) ==
    IF S = {} THEN {<<>>}
    ELSE UNION {{<<x>> \o rest : rest \in Orders(S \ {x})} : x \in S}

\* The second listing of the log left out (a faulty variant).
PullLookahead_none ==
    /\ pull.pc = "lookahead"
    /\ pull' = [pull EXCEPT !.pc = "finish",
                            !.new_last_quorum_part = zk_quorum_last,
                            !.new_inprogress_quorum_part = zk_quorum_status,
                            !.new_virtual_parts = <<>>]
    /\ UNCHANGED <<zkVars, entries, queue, execVars, partVars, mutVars, mutex,
                   um, ld, rm, rr, timeVars, histVars>>

\* The quorum nodes, then the second listing of the log and the bodies of the
\* entries not yet copied (a foreign node's body does not parse).
PullLookahead ==
    /\ pull.pc = "lookahead"
    /\ LET names == NotBefore(LogChildren, pull.min_log_entry)
       IN  IF \E n \in names : ~startsWithLog(n)
           THEN pull' = PullIdle
           ELSE \E order \in Orders(names) :
                  pull' = [pull EXCEPT
                             !.pc = "finish",
                             !.new_last_quorum_part = zk_quorum_last,
                             !.new_inprogress_quorum_part = zk_quorum_status,
                             !.new_virtual_parts =
                                 [j \in 1..Len(order) |->
                                     LogEntry_parse(zk_log[NameIndex(order[j]) + 1])
                                         .new_part_name]]
    /\ UNCHANGED <<zkVars, entries, queue, execVars, partVars, mutVars, mutex,
                   um, ld, rm, rr, timeVars, histVars>>

\* The last block under the state mutex: the assignments.
PullFinish ==
    /\ pull.pc = "finish"
    /\ mutex = "free"
    /\ mutex' = "pull"
    /\ virtual_parts' = next_virtual_parts
    /\ current_inserts' = pull.new_current_inserts
    /\ last_quorum_part' = pull.new_last_quorum_part
    /\ inprogress_quorum_part' = pull.new_inprogress_quorum_part
    /\ pull' = [pull EXCEPT !.pc = "return"]
    /\ UNCHANGED <<zkVars, entries, queue, execVars, next_virtual_parts, mutVars,
                   um, ld, rm, rr, timeVars, histVars>>

\* The lookahead names added to virtual_parts as well (a faulty variant).
PullReturn_both ==
    /\ pull.pc = "return"
    /\ mutex = "pull"
    /\ mutex' = "free"
    /\ next_virtual_parts' = AddAll(next_virtual_parts, pull.new_virtual_parts)
    /\ virtual_parts' = AddAll(virtual_parts, pull.new_virtual_parts)
    /\ pull' = PullIdle
    /\ UNCHANGED <<zkVars, entries, queue, execVars, current_inserts,
                   last_quorum_part, inprogress_quorum_part, mutVars, um, ld,
                   rm, rr, timeVars, histVars>>

\* The last block under the state mutex: the lookahead names go to
\* next_virtual_parts, the mutex is released and the call returns.
PullReturn ==
    /\ pull.pc = "return"
    /\ mutex = "pull"
    /\ mutex' = "free"
    /\ next_virtual_parts' = AddAll(next_virtual_parts, pull.new_virtual_parts)
    /\ pull' = PullIdle
    /\ UNCHANGED <<zkVars, entries, queue, execVars, virtual_parts,
                   current_inserts, last_quorum_part, inprogress_quorum_part,
                   mutVars, um, ld, rm, rr, timeVars, histVars>>

\* -------------------------------------------------------------------- load
\* result is what the last call gave its caller: "updated" (true), "nothing"
\* (false), "threw", or "none" before the first call.
LoadIdle == [pc |-> "idle", children |-> <<>>, j |-> 1, result |-> "none"]
LoadReturn(result) == [LoadIdle EXCEPT !.result = result]

\* The znode names of the queued entries (already_loaded_paths).
QueuedZnodes == {entries[queue[x]].znode_name : x \in 1..Len(queue)}

\* The listed children, every one of them kept (a faulty variant).
ChildrenToLoad_all(children, already_loaded_paths) == SortNumbers(children)

\* remove_if, erase and std::sort of the listed children.
ChildrenToLoad(children, already_loaded_paths) ==
    SortNumbers(children \ already_loaded_paths)

\* The state mutex is taken, the children of <replica>/queue are listed, the
\* loaded ones dropped and the rest sorted; nothing to load ends the block
\* and the call, which returns false.
LoadBegin ==
    /\ ld.pc = "idle"
    /\ mutex = "free"
    /\ LET children == ChildrenToLoad(DOMAIN zk_queue, QueuedZnodes)
       IN  IF children = <<>>
           THEN /\ ld' = LoadReturn("nothing")
                /\ UNCHANGED mutex
           ELSE /\ ld' = [pc |-> "get", children |-> children, j |-> 1,
                          result |-> ld.result]
                /\ mutex' = "load"
    /\ UNCHANGED <<zkVars, entries, queue, execVars, partVars, mutVars, pull,
                   um, rm, rr, timeVars, histVars>>

\* future.get() of one child and its insertion; a child removed meanwhile
\* makes get throw, which leaves load with the entries inserted so far.
LoadInsert ==
    /\ ld.pc = "get"
    /\ mutex = "load"
    /\ LET child == ld.children[ld.j]
           last == ld.j = Len(ld.children)
       IN  IF child \in DOMAIN zk_queue
           THEN /\ insertUnlocked([LogEntry_parse(zk_queue[child]) EXCEPT
                                      !.znode_name = child, !.origin = "load"])
                /\ ld' = IF last THEN LoadReturn("updated")
                         ELSE [ld EXCEPT !.j = ld.j + 1]
                /\ mutex' = IF last THEN "free" ELSE "load"
           ELSE /\ ld' = LoadReturn("threw")
                /\ mutex' = "free"
                /\ UNCHANGED <<entries, queue, next_virtual_parts, timeVars>>
    /\ UNCHANGED <<zkVars, execVars, virtual_parts, current_inserts,
                   last_quorum_part, inprogress_quorum_part, mutVars, pull, um,
                   rm, rr, histVars>>

\* ------------------------------------------- initVirtualParts and the like
\* initVirtualParts: the value of next_virtual_parts and virtual_parts after it.
initVirtualParts(parts) == AddAll({}, parts)

\* The names callers pass to disableMergesInRange.
DisabledRanges == {RangeA, P01}

\* disableMergesInRange
DisableMergesInRange ==
    /\ \E part_name \in DisabledRanges :
          virtual_parts' = add(virtual_parts, part_name)
    /\ UNCHANGED <<zkVars, entries, queue, execVars, next_virtual_parts,
                   current_inserts, last_quorum_part, inprogress_quorum_part,
                   mutVars, mutex, pull, um, ld, rm, rr, timeVars, histVars>>

\* ------------------------------------------------------ admission predicates
PartProducing == {"MERGE_PARTS", "GET_PART", "ATTACH_PART", "MUTATE_PART"}

\* isNotCoveredByFuturePartsImpl, the covering check left out (a faulty variant).
isNotCovered_same(new_part_name) == new_part_name \notin future_parts

\* isNotCoveredByFuturePartsImpl
isNotCoveredByFuturePartsImpl(new_part_name) ==
    /\ new_part_name \notin future_parts
    /\ ~\E future_part_name \in future_parts :
            contains(fromPartName(future_part_name), fromPartName(new_part_name))

\* getConflictsForClearColumnCommand, the other column clears left out (a
\* faulty variant).
getConflicts_noclear(entry) ==
    {queue[x] : x \in
        {y \in 1..Len(queue) :
            LET elem == entries[queue[y]]
            IN  /\ elem.currently_executing
                /\ elem.znode_name # entry.znode_name
                /\ elem.type \in PartProducing
                /\ containsName(entry.new_part_name, elem.new_part_name)}}

\* getConflictsForClearColumnCommand: the ids of the conflicting entries.
getConflictsForClearColumnCommand(entry) ==
    {queue[x] : x \in
        {y \in 1..Len(queue) :
            LET elem == entries[queue[y]]
            IN  /\ elem.currently_executing
                /\ elem.znode_name # entry.znode_name
                /\ \/ /\ elem.type \in PartProducing
                      /\ containsName(entry.new_part_name, elem.new_part_name)
                   \/ /\ elem.type = "CLEAR_COLUMN"
                      /\ fromPartName(entry.new_part_name).partition_id
                             = fromPartName(elem.new_part_name).partition_id}}

\* shouldExecuteLogEntry; cancelled is merger.merges_blocker.isCancelled(),
\* too_big the comparison of the parts' size with the merger's current maximum.
shouldExecuteLogEntry(entry, cancelled, too_big) ==
    /\ entry.type \in PartProducing
          => isNotCoveredByFuturePartsImpl(entry.new_part_name)
    /\ entry.type \in {"MERGE_PARTS", "MUTATE_PART"}
          => /\ \A x \in 1..Len(entry.parts_to_merge) :
                    entry.parts_to_merge[x] \notin future_parts
             /\ ~cancelled
             /\ ~too_big
    /\ entry.type = "CLEAR_COLUMN"
          => getConflictsForClearColumnCommand(entry) = {}

\* ------------------------------------------------- executing-entry lifecycle
\* Most times one entry is passed over by selectEntryToProcess.
MaxPostponed == 2

\* The elements of a sequence.
Range(seq) == {seq[j] : j \in 1..Len(seq)}

\* The sequence without its x-th element.
Without(seq, x) == SubSeq(seq, 1, x - 1) \o SubSeq(seq, x + 1, Len(seq))

\* The sequence without the element id.
Erase(seq, id) == SelectSeq(seq, LAMBDA y : y # id)

\* The entries still referenced: queued, held by a handle, or waited for.
Live(ents, q, hs, waited) ==
    LET keep == {q[x] : x \in 1..Len(q)} \cup DOMAIN hs \cup waited
    IN  [id \in DOMAIN ents \cap keep |-> ents[id]]

\* selectEntryToProcess leaving the selected entry at its place (a faulty
\* variant).
SelectEntryToProcess_inplace ==
    /\ mutex = "free"
    /\ queue # <<>>
    /\ \E cancelled \in BOOLEAN,
          big \in SUBSET {queue[x] : x \in 1..Len(queue)} :
          LET passing == {x \in 1..Len(queue) :
                            /\ ~entries[queue[x]].currently_executing
                            /\ shouldExecuteLogEntry(entries[queue[x]], cancelled,
                                                     queue[x] \in big)}
              x == IF passing = {} THEN Len(queue) + 1
                   ELSE CHOOSE y \in passing : \A z \in passing : y <= z
              skipped == {queue[y] : y \in
                            {z \in 1..(x - 1) :
                                ~entries[queue[z]].currently_executing}}
              marked == [id \in DOMAIN entries |->
                            IF id \in skipped
                            THEN [entries[id] EXCEPT
                                    !.num_postponed = @ + 1]
                            ELSE entries[id]]
          IN  /\ \A id \in skipped : entries[id].num_postponed < MaxPostponed
              /\ IF passing = {}
                 THEN /\ entries' = marked
                      /\ UNCHANGED <<queue, future_parts, handles>>
                 ELSE LET id == queue[x]
                          name == entries[id].new_part_name
                      IN  /\ queue' = queue
                          /\ entries' = [marked EXCEPT
                                           ![id].currently_executing = TRUE,
                                           ![id].moved = TRUE]
                          /\ IF name \in future_parts
                             THEN UNCHANGED <<future_parts, handles>>
                             ELSE /\ future_parts' = future_parts \cup {name}
                                  /\ handles' = handles @@ (id :> "exec")
    /\ UNCHANGED <<zkVars, partVars, mutVars, mutex, pull, um, ld, rm, rr,
                   timeVars, histVars>>

\* selectEntryToProcess: the entries passed over are marked postponed; the
\* first entry that is not executing and should be executed is spliced to the
\* end and tagged by the CurrentlyExecuting constructor, whose insert into
\* future_parts throws on a duplicate after currently_executing is set.
SelectEntryToProcess ==
    /\ mutex = "free"
    /\ queue # <<>>
    /\ \E cancelled \in BOOLEAN,
          big \in SUBSET {queue[x] : x \in 1..Len(queue)} :
          LET passing == {x \in 1..Len(queue) :
                            /\ ~entries[queue[x]].currently_executing
                            /\ shouldExecuteLogEntry(entries[queue[x]], cancelled,
                                                     queue[x] \in big)}
              x == IF passing = {} THEN Len(queue) + 1
                   ELSE CHOOSE y \in passing : \A z \in passing : y <= z
              skipped == {queue[y] : y \in
                            {z \in 1..(x - 1) :
                                ~entries[queue[z]].currently_executing}}
              marked == [id \in DOMAIN entries |->
                            IF id \in skipped
                            THEN [entries[id] EXCEPT
                                    !.num_postponed = @ + 1]
                            ELSE entries[id]]
          IN  /\ \A id \in skipped : entries[id].num_postponed < MaxPostponed
              /\ IF passing = {}
                 THEN /\ entries' = marked
                      /\ UNCHANGED <<queue, future_parts, handles>>
                 ELSE LET id == queue[x]
                          name == entries[id].new_part_name
                      IN  /\ queue' = Append(Without(queue, x), id)
                          /\ entries' = [marked EXCEPT
                                           ![id].currently_executing = TRUE,
                                           ![id].moved = TRUE]
                          /\ IF name \in future_parts
                             THEN UNCHANGED <<future_parts, handles>>
                             ELSE /\ future_parts' = future_parts \cup {name}
                                  /\ handles' = handles @@ (id :> "exec")
    /\ UNCHANGED <<zkVars, partVars, mutVars, mutex, pull, um, ld, rm, rr,
                   timeVars, histVars>>

\* The names an executor may decide to produce instead of new_part_name.
ActualNames == {P01}

\* addFuturePartIfNotCoveredByThem, called by the executor of an entry.
AddFuturePartIfNotCoveredByThem ==
    /\ mutex = "free"
    /\ \E id \in DOMAIN handles, part_name \in ActualNames :
          /\ handles[id] = "exec"
          /\ isNotCoveredByFuturePartsImpl(part_name)
          /\ entries[id].actual_new_part_name = NoName
          /\ entries' = [entries EXCEPT ![id].actual_new_part_name = part_name]
          /\ future_parts' = future_parts \cup {part_name}
    /\ UNCHANGED <<zkVars, queue, handles, partVars, mutVars, mutex, pull, um,
                   ld, rm, rr, timeVars, histVars>>

\* The three values updateTimesOnRemoval works on.
Times ==
    [inserts |-> inserts_by_time, min |-> min_unprocessed_insert_time,
     max |-> max_processed_insert_time]

\* updateTimesOnRemoval
updateTimesOnRemoval(t, entry) ==
    IF entry.type # "GET_PART" THEN t
    ELSE LET set == SetErase(t.inserts, entry)
             first == entries[SetBegin(set)].create_time
         IN  [inserts |-> set,
              min |-> IF set = {} THEN 0
                      ELSE IF first > t.min THEN first ELSE t.min,
              max |-> IF entry.create_time > t.max
                      THEN entry.create_time ELSE t.max]

\* updateTimesOnRemoval for the entries of a sequence of ids, in its order.
RECURSIVE UpdateTimesOnRemovals(_, _)
UpdateTimesOnRemovals(t, ids) ==
    IF ids = <<>> THEN t
    ELSE UpdateTimesOnRemovals(updateTimesOnRemoval(t, entries[Head(ids)]),
                               Tail(ids))

\* The three values are assigned.
SetTimes(t) ==
    /\ inserts_by_time' = t.inserts
    /\ min_unprocessed_insert_time' = t.min
    /\ max_processed_insert_time' = t.max

\* processEntry, func returned true: remove(zookeeper, entry) starts with
\* tryRemove of the entry's queue node.
RemoveEntryZk ==
    /\ \E id \in DOMAIN handles :
          /\ handles[id] = "exec"
          /\ handles' = [handles EXCEPT ![id] = "remove"]
          /\ zk_queue' = [q \in DOMAIN zk_queue \ {entries[id].znode_name} |->
                             zk_queue[q]]
    /\ UNCHANGED <<zk_log, zk_log_junk, zk_log_pointer, zk_queue_seq,
                   zk_mutations, zk_mut_seq, zk_temp, zk_block_numbers,
                   zk_quorum_last, zk_quorum_status>>
    /\ UNCHANGED <<entries, queue, future_parts, partVars, mutVars, mutex, pull,
                   um, ld, rm, rr, timeVars, histVars>>

\* remove(zookeeper, entry), the block under the state mutex: the entry is
\* looked for from the back and erased.
RemoveEntry ==
    /\ mutex = "free"
    /\ \E id \in DOMAIN handles :
          /\ handles[id] = "remove"
          /\ handles' = [handles EXCEPT ![id] = "done"]
          /\ queue' = Erase(queue, id)
          /\ SetTimes(updateTimesOnRemoval(Times, entries[id]))
    /\ UNCHANGED <<zkVars, entries, future_parts, partVars, mutVars, mutex,
                   pull, um, ld, rm, rr, histVars>>

\* processEntry, the exception handler taking the entry out of the queue
\* instead of recording the exception (a faulty variant).
ProcessEntryThrow_erase ==
    /\ mutex = "free"
    /\ \E id \in DOMAIN handles :
          /\ handles[id] \in {"exec", "done"}
          /\ handles' = [handles EXCEPT ![id] = "failed"]
          /\ queue' = Erase(queue, id)
    /\ UNCHANGED <<zkVars, entries, future_parts, partVars, mutVars, mutex,
                   pull, um, ld, rm, rr, timeVars, histVars>>

\* processEntry, func threw, or func returned true and remove threw (at
\* get_zookeeper or tryRemove before the entry is erased, at the update of
\* the times after it): the exception is saved on the entry under the state
\* mutex and processEntry returns false.
ProcessEntryThrow ==
    /\ mutex = "free"
    /\ \E id \in DOMAIN handles :
          /\ handles[id] \in {"exec", "done"}
          /\ handles' = [handles EXCEPT ![id] = "failed"]
          /\ entries' = [entries EXCEPT ![id].exception = TRUE]
    /\ UNCHANGED <<zkVars, queue, future_parts, partVars, mutVars, mutex,
                   pull, um, ld, rm, rr, timeVars, histVars>>

\* ~CurrentlyExecuting, after processEntry returned: true with the entry
\* removed ("done") or with func having returned false ("exec"), false after
\* an exception ("failed").
ReleaseHandle ==
    /\ mutex = "free"
    /\ \E id \in DOMAIN handles :
          /\ handles[id] \in {"exec", "done", "failed"}
          /\ LET entry == entries[id]
                 hs == [h \in DOMAIN handles \ {id} |-> handles[h]]
             IN  /\ future_parts' =
                        future_parts \ {entry.new_part_name,
                                        entry.actual_new_part_name}
                 /\ handles' = hs
                 /\ entries' = Live([entries EXCEPT
                                       ![id].currently_executing = FALSE,
                                       ![id].actual_new_part_name = NoName],
                                    queue, hs, rr.waited)
    /\ UNCHANGED <<zkVars, queue, partVars, mutVars, mutex, pull, um, ld, rm,
                   rr, timeVars, histVars>>

\* ------------------------------------------------------- queue manipulation
\* insert: the caller has created the entry's node under <replica>/queue.
MaxInserts == 2
InsertBodies == {GetP0, GetP01, GetPB, MergeP01, DropA, ClearA}

Insert ==
    /\ mutex = "free"
    /\ zk_queue_seq < MaxInserts
    /\ \E data \in InsertBodies :
          /\ zk_queue' = zk_queue @@ (zk_queue_seq :> data)
          /\ zk_queue_seq' = zk_queue_seq + 1
          /\ insertUnlocked([LogEntry_parse(data) EXCEPT
                                !.znode_name = zk_queue_seq,
                                !.origin = "insert"])
    /\ UNCHANGED <<zk_log, zk_log_junk, zk_log_pointer, zk_mutations,
                   zk_mut_seq, zk_temp, zk_block_numbers, zk_quorum_last,
                   zk_quorum_status>>
    /\ UNCHANGED <<execVars, virtual_parts, current_inserts, last_quorum_part,
                   inprogress_quorum_part, mutVars, mutex, pull, um, ld, rm, rr,
                   histVars>>

\* The names callers pass to remove(zookeeper, part_name).
RemovedNames == {P0}
RmIdle == [pc |-> "idle", znode_name |-> NoZnode]

\* remove(zookeeper, part_name), the block under the state mutex: the first
\* entry producing part_name is erased.
RemoveByName ==
    /\ mutex = "free"
    /\ rm.pc = "idle"
    /\ \E part_name \in RemovedNames :
          LET found == {x \in 1..Len(queue) :
                           entries[queue[x]].new_part_name = part_name}
          IN  /\ found # {}
              /\ LET x == CHOOSE y \in found : \A z \in found : y <= z
                     q == Without(queue, x)
                 IN  /\ queue' = q
                     /\ rm' = [pc |-> "zk",
                               znode_name |-> entries[queue[x]].znode_name]
                     /\ entries' = Live(entries, q, handles, rr.waited)
                     /\ SetTimes(updateTimesOnRemoval(Times, entries[queue[x]]))
    /\ UNCHANGED <<zkVars, execVars, partVars, mutVars, mutex, pull, um, ld, rr,
                   histVars>>

\* remove(zookeeper, part_name), after the mutex: tryRemove of the found node.
RemoveByNameZk ==
    /\ rm.pc = "zk"
    /\ zk_queue' = [q \in DOMAIN zk_queue \ {rm.znode_name} |-> zk_queue[q]]
    /\ rm' = RmIdle
    /\ UNCHANGED <<zk_log, zk_log_junk, zk_log_pointer, zk_queue_seq,
                   zk_mutations, zk_mut_seq, zk_temp, zk_block_numbers,
                   zk_quorum_last, zk_quorum_status>>
    /\ UNCHANGED <<entries, queue, execVars, partVars, mutVars, mutex, pull,
                   um, ld, rr, timeVars, histVars>>

\* The ranges callers pass to removePartProducingOpsInRange.
RemovedRanges == {RangeA}

\* to_wait is the list of line 637; waited keeps its entries alive until the
\* call returns.
RrIdle == [pc |-> "idle", to_wait |-> <<>>, waited |-> {}]

\* The test of line 646, every type taken (a faulty variant).
InRange_anytype(part_name, entry) ==
    containsName(part_name, entry.new_part_name)

\* The test of lines 646-647.
InRange(part_name, entry) ==
    /\ entry.type \in {"GET_PART", "MERGE_PARTS", "MUTATE_PART"}
    /\ containsName(part_name, entry.new_part_name)

\* The entries of to_wait from the first one that is still executing.
RECURSIVE StillWaiting(_)
StillWaiting(to_wait) ==
    IF to_wait # <<>> /\ ~entries[Head(to_wait)].currently_executing
    THEN StillWaiting(Tail(to_wait))
    ELSE to_wait

\* removePartProducingOpsInRange up to the waits: under the state mutex every
\* entry in the range has its node removed and is erased; the executing ones
\* are remembered. The first wait releases the mutex; with nothing to wait
\* for the mutex is kept until the return.
RemovePartProducingOpsInRange ==
    /\ mutex = "free"
    /\ rr.pc = "idle"
    /\ \E part_name \in RemovedRanges :
          LET ids == {id \in Range(queue) : InRange(part_name, entries[id])}
              hit == SelectSeq(queue, LAMBDA id : id \in ids)
              to_wait == SelectSeq(hit, LAMBDA id :
                                          entries[id].currently_executing)
              q == SelectSeq(queue, LAMBDA id : id \notin ids)
          IN  /\ queue' = q
              /\ zk_queue' = [z \in DOMAIN zk_queue \
                                 {entries[id].znode_name : id \in ids} |->
                                 zk_queue[z]]
              /\ rr' = [pc |-> "wait", to_wait |-> to_wait,
                        waited |-> Range(to_wait)]
              /\ mutex' = IF to_wait = <<>> THEN "rr" ELSE "free"
              /\ entries' = Live(entries, q, handles, Range(to_wait))
              /\ SetTimes(UpdateTimesOnRemovals(Times, hit))
    /\ UNCHANGED <<zk_log, zk_log_junk, zk_log_pointer, zk_queue_seq,
                   zk_mutations, zk_mut_seq, zk_temp, zk_block_numbers,
                   zk_quorum_last, zk_quorum_status>>
    /\ UNCHANGED <<execVars, partVars, mutVars, pull, um, ld, rm, histVars>>

\* The waits of lines 670-671: a wait ends with the mutex taken again and the
\* entry no longer executing; after the last one the call returns.
RemoveRangeReturn ==
    /\ rr.pc = "wait"
    /\ mutex = IF rr.to_wait = <<>> THEN "rr" ELSE "free"
    /\ StillWaiting(rr.to_wait) # rr.to_wait \/ rr.to_wait = <<>>
    /\ LET rest == StillWaiting(rr.to_wait)
       IN  IF rest = <<>>
           THEN /\ rr' = RrIdle
                /\ entries' = Live(entries, queue, handles, {})
           ELSE /\ rr' = [rr EXCEPT !.to_wait = rest]
                /\ UNCHANGED entries
    /\ mutex' = "free"
    /\ UNCHANGED <<zkVars, queue, execVars, partVars, mutVars, pull, um, ld, rm,
                   timeVars, histVars>>

\* The names callers pass to moveSiblingPartsForMergeToEndOfQueue.
SiblingNames == {P0, P2}

\* moveSiblingPartsForMergeToEndOfQueue, the first loop: the place of the
\* first merge or mutation that lists part_name, 0 when there is none.
merge_entry(part_name) ==
    LET merges == {x \in 1..Len(queue) :
                     /\ entries[queue[x]].type \in {"MERGE_PARTS", "MUTATE_PART"}
                     /\ \E y \in 1..Len(entries[queue[x]].parts_to_merge) :
                            entries[queue[x]].parts_to_merge[y] = part_name}
    IN  IF merges = {} THEN 0
        ELSE CHOOSE y \in merges : \A z \in merges : y <= z

\* moveSiblingPartsForMergeToEndOfQueue, the value returned.
parts_for_merge(part_name) ==
    IF merge_entry(part_name) = 0 THEN {}
    ELSE Range(entries[queue[merge_entry(part_name)]].parts_to_merge)

\* moveSiblingPartsForMergeToEndOfQueue, the second loop running over the
\* whole queue (a faulty variant).
MoveSiblingParts_whole ==
    /\ mutex = "free"
    /\ \E part_name \in SiblingNames :
          LET moving == {queue[x] : x \in
                           {y \in 1..Len(queue) :
                              /\ y # merge_entry(part_name)
                              /\ entries[queue[y]].type \in
                                     {"MERGE_PARTS", "GET_PART", "MUTATE_PART"}
                              /\ entries[queue[y]].new_part_name
                                     \in parts_for_merge(part_name)}}
          IN  /\ queue' = SelectSeq(queue, LAMBDA id : id \notin moving)
                            \o SelectSeq(queue, LAMBDA id : id \in moving)
              /\ entries' = [id \in DOMAIN entries |->
                               IF id \in moving
                               THEN [entries[id] EXCEPT !.moved = TRUE]
                               ELSE entries[id]]
    /\ UNCHANGED <<zkVars, execVars, partVars, mutVars, mutex, pull, um, ld, rm,
                   rr, timeVars, histVars>>

\* moveSiblingPartsForMergeToEndOfQueue
MoveSiblingPartsForMergeToEndOfQueue ==
    /\ mutex = "free"
    /\ \E part_name \in SiblingNames :
          LET moving == {queue[x] : x \in
                           {y \in 1..(merge_entry(part_name) - 1) :
                              /\ entries[queue[y]].type \in
                                     {"MERGE_PARTS", "GET_PART", "MUTATE_PART"}
                              /\ entries[queue[y]].new_part_name
                                     \in parts_for_merge(part_name)}}
          IN  /\ queue' = SelectSeq(queue, LAMBDA id : id \notin moving)
                            \o SelectSeq(queue, LAMBDA id : id \in moving)
              /\ entries' = [id \in DOMAIN entries |->
                               IF id \in moving
                               THEN [entries[id] EXCEPT !.moved = TRUE]
                               ELSE entries[id]]
    /\ UNCHANGED <<zkVars, execVars, partVars, mutVars, mutex, pull, um, ld, rm,
                   rr, timeVars, histVars>>

\* ------------------------------------------------- merge admission oracle
\* getCurrentMutationVersion
getCurrentMutationVersion(part_info) ==
    LET data_version == IF part_info.version # 0 THEN part_info.version
                        ELSE part_info.min_block
        upto == {x.number : x \in
                    {y \in mutations_by_partition :
                        /\ y.partition = part_info.partition_id
                        /\ y.number <= data_version}}
    IN  IF upto = {} THEN -1
        ELSE CHOOSE n \in upto : \A m \in upto : m <= n

\* The reasons without the look for a broader containing part (a faulty
\* variant).
PartReason_any(name) ==
    LET containing_part == getContainingPart(virtual_parts, fromPartName(name))
    IN  IF containing_part = NoName THEN "not read from the log yet"
        ELSE IF name = last_quorum_part THEN "last part with a satisfied quorum"
        ELSE IF name = inprogress_quorum_part THEN "quorum insert in progress"
        ELSE ""

\* The first reason, in the order of the loop over {left, right}, for which
\* canMergeParts rejects a part by itself ("" when there is none).
PartReason(name) ==
    LET containing_part == getContainingPart(virtual_parts, fromPartName(name))
    IN  IF containing_part = NoName THEN "not read from the log yet"
        ELSE IF containing_part # name THEN "a merge has already been assigned"
        ELSE IF name = last_quorum_part THEN "last part with a satisfied quorum"
        ELSE IF name = inprogress_quorum_part THEN "quorum insert in progress"
        ELSE ""

\* canMergeParts without the look at next_virtual_parts (a faulty variant).
canMergeParts_nogap(left, right) ==
    LET l == fromPartName(left)
        r == fromPartName(right)
        swap == l.max_block > r.min_block
        left_max_block == IF swap THEN r.min_block ELSE l.max_block
        right_min_block == IF swap THEN l.max_block ELSE r.min_block
        ephemeral == {x[2] : x \in {y \in current_inserts : y[1] = l.partition_id}}
        after == {b \in ephemeral : b > left_max_block}
        left_eph == CHOOSE b \in after : \A c \in after : b <= c
    IN  IF left = right THEN [result |-> FALSE, reason |-> "itself"]
        ELSE IF l.partition_id # r.partition_id
        THEN [result |-> FALSE, reason |-> "different partitions"]
        ELSE IF PartReason(left) # ""
        THEN [result |-> FALSE, reason |-> PartReason(left)]
        ELSE IF PartReason(right) # ""
        THEN [result |-> FALSE, reason |-> PartReason(right)]
        ELSE IF /\ left_max_block + 1 < right_min_block
                /\ after # {}
                /\ left_eph < right_min_block
        THEN [result |-> FALSE, reason |-> "still being inserted"]
        ELSE IF getCurrentMutationVersion(l) # getCurrentMutationVersion(r)
        THEN [result |-> FALSE, reason |-> "mutation versions differ"]
        ELSE [result |-> TRUE, reason |-> ""]

\* canMergeParts: the answer and the reason of a rejection.
canMergeParts(left, right) ==
    LET l == fromPartName(left)
        r == fromPartName(right)
        swap == l.max_block > r.min_block
        left_max_block == IF swap THEN r.min_block ELSE l.max_block
        right_min_block == IF swap THEN l.max_block ELSE r.min_block
        gap_part_info == [partition_id |-> l.partition_id,
                          min_block |-> left_max_block + 1,
                          max_block |-> right_min_block - 1,
                          level |-> GapLevel, version |-> 0]
        ephemeral == {x[2] : x \in {y \in current_inserts : y[1] = l.partition_id}}
        \* upper_bound(left_max_block), then *left_eph_it < right_min_block
        after == {b \in ephemeral : b > left_max_block}
        left_eph == CHOOSE b \in after : \A c \in after : b <= c
    IN  IF left = right THEN [result |-> FALSE, reason |-> "itself"]
        ELSE IF l.partition_id # r.partition_id
        THEN [result |-> FALSE, reason |-> "different partitions"]
        ELSE IF PartReason(left) # ""
        THEN [result |-> FALSE, reason |-> PartReason(left)]
        ELSE IF PartReason(right) # ""
        THEN [result |-> FALSE, reason |-> PartReason(right)]
        ELSE IF /\ left_max_block + 1 < right_min_block
                /\ after # {}
                /\ left_eph < right_min_block
        THEN [result |-> FALSE, reason |-> "still being inserted"]
        ELSE IF /\ left_max_block + 1 < right_min_block
                /\ getPartsCoveredBy(next_virtual_parts, gap_part_info) # {}
        THEN [result |-> FALSE, reason |-> "parts not ready"]
        ELSE IF getCurrentMutationVersion(l) # getCurrentMutationVersion(r)
        THEN [result |-> FALSE, reason |-> "mutation versions differ"]
        ELSE [result |-> TRUE, reason |-> ""]

\* The parts the merge selector asks about.
SelectorParts == {P0, P1, P2, P01, PB}
NoCall == [left |-> NoName, right |-> NoName, result |-> FALSE, reason |-> ""]

\* A call of canMergeParts by the merge selector; merge_call keeps the answer.
CanMergeParts ==
    /\ mutex = "free"
    /\ \E left \in SelectorParts, right \in SelectorParts :
          merge_call' = [left |-> left, right |-> right,
                         result |-> canMergeParts(left, right).result,
                         reason |-> canMergeParts(left, right).reason]
    /\ UNCHANGED <<zkVars, entries, queue, execVars, partVars, mutVars, mutex,
                   pull, um, ld, rm, rr, timeVars, mutate_call, created,
                   initial_index, purged, pulled_seen>>

\* ------------------------------------------------------ mutation planning
\* The (block number, mutation) pairs of the partition (in_partition->second).
InPartition(partition_id) ==
    {x \in mutations_by_partition : x.partition = partition_id}

\* canMutatePart, a part already at the desired version accepted (a faulty
\* variant).
canMutatePart_again(part_info, desired_mutation_version) ==
    LET in_partition == InPartition(part_info.partition_id)
        containing == getContainingPart(virtual_parts, part_info)
        current_version == getCurrentMutationVersion(part_info)
        desired_version == (CHOOSE x \in in_partition :
                               \A y \in in_partition : y.number <= x.number).number
    IN  IF \/ in_partition = {}
           \/ containing = NoName
           \/ fromPartName(containing) # part_info
           \/ current_version > desired_version
        THEN [result |-> FALSE,
              desired_mutation_version |-> desired_mutation_version]
        ELSE [result |-> TRUE, desired_mutation_version |-> desired_version]

\* canMutatePart: the answer and the value of the output parameter after it.
canMutatePart(part_info, desired_mutation_version) ==
    LET in_partition == InPartition(part_info.partition_id)
        containing == getContainingPart(virtual_parts, part_info)
        current_version == getCurrentMutationVersion(part_info)
        desired_version == (CHOOSE x \in in_partition :
                               \A y \in in_partition : y.number <= x.number).number
    IN  IF \/ in_partition = {}
           \/ containing = NoName
           \/ fromPartName(containing) # part_info
           \/ current_version >= desired_version
        THEN [result |-> FALSE,
              desired_mutation_version |-> desired_mutation_version]
        ELSE [result |-> TRUE, desired_mutation_version |-> desired_version]

\* The values callers hold in desired_mutation_version before the call, and
\* the versions they ask commands for.
DesiredVersions == {-1, 1, 2, 3}
NoMutateCall ==
    [op |-> "none", part |-> NoName, desired |-> -1, result |-> FALSE,
     out |-> -1, commands |-> <<>>]

\* canMutatePart
CanMutatePart ==
    /\ mutex = "free"
    /\ \E name \in SelectorParts, desired \in DesiredVersions :
          LET answer == canMutatePart(fromPartName(name), desired)
          IN  mutate_call' =
                 [op |-> "canMutatePart", part |-> name, desired |-> desired,
                  result |-> answer.result,
                  out |-> answer.desired_mutation_version, commands |-> <<>>]
    /\ UNCHANGED <<zkVars, entries, queue, execVars, partVars, mutVars, mutex,
                   pull, um, ld, rm, rr, timeVars, merge_call, created,
                   initial_index, purged, pulled_seen>>

\* The commands of the mutations the pairs with the given block numbers point
\* to, in the order of the numbers.
RECURSIVE Concatenated(_, _)
Concatenated(in_partition, numbers) ==
    IF numbers = <<>> THEN <<>>
    ELSE LET x == CHOOSE y \in in_partition : y.number = Head(numbers)
             j == CHOOSE k \in 1..Len(mutations) :
                      mutations[k].znode_name = x.mutation
         IN  mutations[j].commands
                 \o Concatenated(in_partition, Tail(numbers))

\* getMutationCommands where its loop is defined (begin is not after end);
\* result FALSE stands for the exception.
getMutationCommands(part_info, desired_mutation_version) ==
    LET in_partition == InPartition(part_info.partition_id)
        numbers == {x.number : x \in in_partition}
        data_version == IF part_info.version # 0 THEN part_info.version
                        ELSE part_info.min_block
        between == {n \in numbers :
                       n > data_version /\ n <= desired_mutation_version}
    IN  IF in_partition = {} \/ desired_mutation_version \notin numbers
        THEN [result |-> FALSE, commands |-> <<>>]
        ELSE [result |-> TRUE,
              commands |-> Concatenated(in_partition, SortNumbers(between))]

\* The loop of lines 1130-1132 runs from begin past the end of the map when
\* begin is after end: a block number lies above desired_mutation_version and
\* not above the data version.
LoopUndefined(part_info, desired_mutation_version) ==
    LET numbers == {x.number : x \in InPartition(part_info.partition_id)}
        data_version == IF part_info.version # 0 THEN part_info.version
                        ELSE part_info.min_block
    IN  /\ desired_mutation_version \in numbers
        /\ \E n \in numbers :
              n > desired_mutation_version /\ n <= data_version

\* What a read past the end of the map may give: the call dies, or returns
\* no command, or returns something that is no command of the partition.
UndefinedOutcomes ==
    {[result |-> FALSE, commands |-> <<>>],
     [result |-> TRUE, commands |-> <<>>],
     [result |-> TRUE, commands |-> <<[mutation |-> -1, command |-> 0]>>]}

\* getMutationCommands
GetMutationCommands ==
    /\ mutex = "free"
    /\ \E name \in SelectorParts, desired \in DesiredVersions :
          \E answer \in
                IF LoopUndefined(fromPartName(name), desired)
                THEN UndefinedOutcomes
                ELSE {getMutationCommands(fromPartName(name), desired)} :
             mutate_call' =
                [op |-> "getMutationCommands", part |-> name,
                 desired |-> desired, result |-> answer.result,
                 out |-> desired, commands |-> answer.commands]
    /\ UNCHANGED <<zkVars, entries, queue, execVars, partVars, mutVars, mutex,
                   pull, um, ld, rm, rr, timeVars, merge_call, created,
                   initial_index, purged, pulled_seen>>

\* ------------------------------------------------------ the specifications
\* The local parts initialize() may find, in the order initVirtualParts adds them.
LocalParts == {<<>>, <<P0, P1, P2>>}

\* The state after construction and initVirtualParts(parts), on a replica
\* whose shared log holds the entries of log and whose <replica>/queue holds
\* the nodes an earlier run of the server left there.
InitNodes(parts, log, nodes) ==
    /\ zk_log = log
    /\ zk_log_junk = FALSE
    /\ zk_log_pointer = <<>>
    /\ zk_queue = [n \in 0..(Len(nodes) - 1) |-> nodes[n + 1]]
    /\ zk_queue_seq = Len(nodes)
    /\ zk_mutations = {}
    /\ zk_mut_seq = 0
    /\ zk_temp = {}
    /\ zk_block_numbers = {}
    /\ zk_quorum_last = NoName
    /\ zk_quorum_status = NoName
    /\ entries = <<>>
    /\ queue = <<>>
    /\ handles = <<>>
    /\ future_parts = {}
    /\ next_virtual_parts = initVirtualParts(parts)
    /\ virtual_parts = initVirtualParts(parts)
    /\ current_inserts = {}
    /\ last_quorum_part = NoName
    /\ inprogress_quorum_part = NoName
    /\ mutations = <<>>
    /\ mutations_by_partition = {}
    /\ inserts_by_time = {}
    /\ min_unprocessed_insert_time = 0
    /\ max_processed_insert_time = 0
    /\ mutex = "free"
    /\ pull = PullIdle
    /\ um = UmIdle
    /\ ld = LoadIdle
    /\ rm = RmIdle
    /\ rr = RrIdle
    /\ merge_call = NoCall
    /\ mutate_call = NoMutateCall
    /\ created = <<>>
    /\ initial_index = -1
    /\ purged = {}
    /\ pulled_seen = {}

\* A replica whose <replica>/queue is empty.
InitState(parts, log) == InitNodes(parts, log, <<>>)

\* A replica created together with the table: the shared log is empty.
InitWith(parts) == InitState(parts, <<>>)

\* A replica that meets a shared log longer than one multi-request takes.
LongLogLen == 101
LongLog == [j \in 1..LongLogLen |-> IF j = LongLogLen THEN DropA ELSE GetP0]

Init ==
    \/ \E parts \in LocalParts : InitWith(parts)
    \/ InitState(<<>>, LongLog)

\* pullLogsToQueue with its updateMutations call.
PullSteps ==
    \/ UmList
    \/ UmCompare
    \/ PullStart
    \/ PullListLog
    \/ PullThrow
    \/ PullPointer
    \/ PullFetch
    \/ PullParse
    \/ PullMulti
    \/ PullInsert
    \/ PullTerminate
    \/ PullTemp
    \/ PullLookahead
    \/ PullFinish
    \/ PullReturn

\* The synchronisation with the coordinator: the shared log grows while the
\* pull thread runs and load re-reads <replica>/queue.
Next ==
    \/ AppendLog
    \/ PullSteps
    \/ LoadBegin
    \/ LoadInsert

Spec == Init /\ [][Next]_vars

\* The same with a foreign child appearing in <root>/log.
NextJunk ==
    \/ Next
    \/ CreateLogJunk

SpecJunk == Init /\ [][NextJunk]_vars

\* The same synchronisation on a new replica, with callers inserting entries.
NextInsert ==
    \/ Next
    \/ Insert

SpecInsert == InitWith(<<>>) /\ [][NextInsert]_vars

\* The executors of the queue: selection, the handle's life, removal.
ExecCore ==
    \/ SelectEntryToProcess
    \/ RemoveEntryZk
    \/ RemoveEntry
    \/ ProcessEntryThrow
    \/ ReleaseHandle
    \/ MoveSiblingPartsForMergeToEndOfQueue

\* Entries pulled from the log while the executors work on the queue.
NextOrder ==
    \/ AppendLog
    \/ PullSteps
    \/ ExecCore

SpecOrder == InitWith(<<>>) /\ [][NextOrder]_vars

\* Entries inserted by callers while the executors and the removers work.
NextExec ==
    \/ Insert
    \/ ExecCore
    \/ AddFuturePartIfNotCoveredByThem
    \/ RemoveByName
    \/ RemoveByNameZk
    \/ RemovePartProducingOpsInRange
    \/ RemoveRangeReturn

SpecExec == InitWith(<<>>) /\ [][NextExec]_vars

\* Mutations are created and cleaned while the pull thread and the
\* mutation-updating thread refresh the local list.
NextMut ==
    \/ AppendLog
    \/ CreateMutation
    \/ CleanMutation
    \/ PullSteps
    \/ UmFetch
    \/ UmAppend

SpecMut == InitWith(<<>>) /\ [][NextMut]_vars

\* The states the merge selector may find: the parts of initVirtualParts, the
\* block numbers of running inserts (none of them inside a part), the quorum
\* parts and the mutations that earlier pulls have stored.
MergeLocalParts == {<<>>, <<P0, P1, P2>>, <<P0, P2>>, <<P01, P2>>, <<P0, P2, PB>>}
MergeMutations == {<<>>, <<0>>, <<0, 1>>}

InitMerge ==
    /\ zk_log = <<>>
    /\ zk_log_junk = FALSE
    /\ zk_log_pointer = <<>>
    /\ zk_queue = <<>>
    /\ zk_queue_seq = 0
    /\ zk_mutations = {}
    /\ zk_mut_seq = 0
    /\ zk_temp = {}
    /\ zk_block_numbers = {}
    /\ zk_quorum_last = NoName
    /\ zk_quorum_status = NoName
    /\ entries = <<>>
    /\ queue = <<>>
    /\ handles = <<>>
    /\ future_parts = {}
    /\ \E parts \in MergeLocalParts :
          /\ next_virtual_parts = initVirtualParts(parts)
          /\ virtual_parts = initVirtualParts(parts)
    /\ current_inserts \in SUBSET {<<"a", 1>>}
    /\ \A b \in current_inserts :
          ~\E n \in virtual_parts :
              /\ n[1] = b[1]
              /\ n[2] <= b[2]
              /\ b[2] <= n[3]
    /\ last_quorum_part \in {NoName, P2}
    /\ inprogress_quorum_part \in {NoName, P0}
    /\ \E ms \in MergeMutations :
          LET new == [j \in 1..Len(ms) |-> MutationEntry_parse(ms[j])]
          IN  /\ mutations = new
              /\ mutations_by_partition = EmplaceAll({}, IndexPairs(new))
    /\ inserts_by_time = {}
    /\ min_unprocessed_insert_time = 0
    /\ max_processed_insert_time = 0
    /\ mutex = "free"
    /\ pull = PullIdle
    /\ um = UmIdle
    /\ ld = LoadIdle
    /\ rm = RmIdle
    /\ rr = RrIdle
    /\ merge_call = NoCall
    /\ mutate_call = NoMutateCall
    /\ created = <<>>
    /\ initial_index = -1
    /\ purged = {}
    /\ pulled_seen = {}

NextMerge ==
    \/ CanMergeParts
    \/ DisableMergesInRange

SpecMerge == InitMerge /\ [][NextMerge]_vars

\* A server restart: the queue nodes of the earlier run are loaded, and load
\* is called again, while nothing else touches the coordinator.
RestartNodes ==
    UNION {[1..n -> InsertBodies] : n \in 0..MaxInserts}

InitRestart == \E nodes \in RestartNodes : InitNodes(<<>>, <<>>, nodes)

NextLoad ==
    \/ LoadBegin
    \/ LoadInsert

SpecLoad == InitRestart /\ [][NextLoad]_vars

\* The mutation planner's questions over the same states.
NextMutate ==
    \/ CanMutatePart
    \/ GetMutationCommands
    \/ DisableMergesInRange

SpecMutate == InitMerge /\ [][NextMutate]_vars

\* The pull thread next to a caller of disableMergesInRange.
NextParts ==
    \/ AppendLog
    \/ PullSteps
    \/ DisableMergesInRange

SpecParts == (\E parts \in LocalParts : InitWith(parts)) /\ [][NextParts]_vars

\* A restart with a longer queue, and callers that are about to fetch a part
\* asking for the siblings of its merge.
MaxSiblingNodes == 3

NextSiblings ==
    \/ LoadBegin
    \/ LoadInsert
    \/ MoveSiblingPartsForMergeToEndOfQueue

SpecSiblings ==
    (\E nodes \in [1..MaxSiblingNodes -> InsertBodies \cup {GetP1}] :
        InitNodes(<<>>, <<>>, nodes)) /\ [][NextSiblings]_vars

\* Inserts on other replicas while this replica pulls the log.
NextInserts ==
    \/ AllocateBlockNumber
    \/ CommitInsert
    \/ AbandonInsert
    \/ PullSteps
    \/ PullBlocks

SpecInserts == InitWith(<<>>) /\ [][NextInserts]_vars

\* A replica with local parts: merges of them arrive from the log while
\* mutations are created and loaded.
NextPlanned ==
    \/ AppendLog
    \/ CreateMutation
    \/ PullSteps
    \/ UmFetch
    \/ UmAppend

SpecPlanned == (\E parts \in LocalParts : InitWith(parts)) /\ [][NextPlanned]_vars

\* insert and load next to the executors and the three removal operations.
NextTimes ==
    \/ LoadBegin
    \/ LoadInsert
    \/ Insert
    \/ SelectEntryToProcess
    \/ RemoveEntryZk
    \/ RemoveEntry
    \/ ReleaseHandle
    \/ RemoveByName
    \/ RemoveByNameZk
    \/ RemovePartProducingOpsInRange
    \/ RemoveRangeReturn

SpecTimes == InitWith(<<>>) /\ [][NextTimes]_vars

\* ------------------------------------------------------------- properties
\* How often x occurs in a sequence.
Count(seq, x) == Cardinality({j \in 1..Len(seq) : seq[j] = x})

\* The queued entry at position x.
At(x) == entries[queue[x]]

\* Before the pointer has a value nothing is created; afterwards every log
\* index from the initial pointer on is created at most once, and exactly once
\* when the pointer is past it.
C1_CreatedOnce ==
    IF initial_index = -1 THEN created = <<>>
    ELSE \A i \in 0..(Len(zk_log) - 1) :
            /\ i < initial_index => Count(created, i) = 0
            /\ i >= initial_index =>
                  /\ Count(created, i) <= 1
                  /\ parseUInt64(zk_log_pointer) > i => Count(created, i) = 1

\* A step that creates queue nodes creates those of one chunk, in order from the
\* pointer on, and moves the pointer behind them; any other step leaves a
\* pointer that has a value, and the nodes, as they are.
C1_ChunkAtomic ==
    IF created' # created
    THEN \E n \in 1..MAX_MULTI_OPS :
            /\ created' = created \o
                  [j \in 1..n |-> parseUInt64(zk_log_pointer) + j - 1]
            /\ zk_log_pointer' = toString(parseUInt64(zk_log_pointer) + n)
            /\ DOMAIN zk_queue' = DOMAIN zk_queue \cup
                  zk_queue_seq..(zk_queue_seq + n - 1)
            /\ \A j \in 1..n :
                  zk_queue'[zk_queue_seq + j - 1] =
                      zk_log[parseUInt64(zk_log_pointer) + j]
    ELSE /\ zk_queue' = zk_queue
         /\ zk_log_pointer # <<>> => zk_log_pointer' = zk_log_pointer

\* C1: over any sequence of pullLogsToQueue calls, failed ones included, every
\* shared-log entry from the initial log_pointer on is created under
\* <replica>/queue at most once, and exactly once when log_pointer is greater
\* than its index; a chunk's entries are created together with the move of
\* log_pointer to last_index + 1, or not at all with log_pointer unchanged.
C1_NoLossNoDuplicate == []C1_CreatedOnce /\ [][C1_ChunkAtomic]_vars

\* Two chunks of a long log have been created and inserted.
C1_Witness ==
    /\ Len(created) > MAX_MULTI_OPS
    /\ Len(queue) > MAX_MULTI_OPS
    /\ pull.pc = "idle"

\* C6: the number stored at <replica>/log_pointer never decreases, neither by
\* the initialisation from an empty pointer nor by a chunk's set to
\* last_entry_index + 1, and a pointer that has a value keeps having one.
C6_PointerMonotone ==
    [][/\ parseUInt64(zk_log_pointer') >= parseUInt64(zk_log_pointer)
       /\ zk_log_pointer # <<>> => zk_log_pointer' # <<>>]_vars

\* The pointer was initialised and then set by the last chunk of a long log.
C6_Witness ==
    /\ initial_index = 0
    /\ zk_log_pointer = toString(LongLogLen)

\* The entry a step has added to the queue.
Inserted == CHOOSE id \in Range(queue') : id \notin Range(queue)

\* C8: an inserted DROP_RANGE entry becomes the first element of the queue
\* whatever its znode_name, an inserted entry of any other type the last one,
\* and the entries queued before keep their order (pull, load and insert).
C8_InsertPosition ==
    [][Len(queue') = Len(queue) + 1 =>
          IF entries'[Inserted].type = "DROP_RANGE"
          THEN queue' = <<Inserted>> \o queue
          ELSE queue' = Append(queue, Inserted)]_vars

\* A pulled DROP_RANGE stands first, before an entry with a smaller znode_name;
\* the queue also holds an entry from insert and one from load, the last
\* element not being a DROP_RANGE.
C8_Witness ==
    /\ Len(queue) >= 3
    /\ At(1).type = "DROP_RANGE"
    /\ At(1).origin = "pull"
    /\ \E x \in 2..Len(queue) : At(x).znode_name < At(1).znode_name
    /\ At(Len(queue)).type # "DROP_RANGE"
    /\ \E x \in 1..Len(queue) : At(x).origin = "insert"
    /\ \E x \in 1..Len(queue) : At(x).origin = "load"

\* Entries put by pulls and not spliced since.
PulledUnmoved(x) == At(x).origin = "pull" /\ ~At(x).moved

\* C7 as stated: any two entries inserted by pulls and not moved since stand in
\* the order of their znode_names.
C7_PulledInZnodeOrder ==
    \A x \in 1..Len(queue), y \in 1..Len(queue) :
        (x < y /\ PulledUnmoved(x) /\ PulledUnmoved(y))
            => At(x).znode_name < At(y).znode_name

\* C7: any two entries other than DROP_RANGE that pulls inserted and that were
\* not moved since stand in the order of their znode_names; pulled DROP_RANGE
\* entries stand before them, the latest first.
C7_PulledInZnodeOrderButDrops ==
    \A x \in 1..Len(queue), y \in 1..Len(queue) :
        (x < y /\ PulledUnmoved(x) /\ PulledUnmoved(y))
            => IF At(x).type = "DROP_RANGE"
               THEN At(y).type = "DROP_RANGE"
                       => At(x).znode_name > At(y).znode_name
               ELSE /\ At(y).type # "DROP_RANGE"
                    /\ At(x).znode_name < At(y).znode_name

\* Two pulled entries that are no DROP_RANGE stand in the queue, untouched by
\* the selection, which has passed over the first of them.
C7_Witness ==
    \E x \in 1..Len(queue), y \in 1..Len(queue) :
        /\ x < y
        /\ PulledUnmoved(x) /\ PulledUnmoved(y)
        /\ At(x).type # "DROP_RANGE" /\ At(y).type # "DROP_RANGE"
        /\ At(x).num_postponed > 0

\* The entries a thread is executing.
Executing == {id \in DOMAIN entries : entries[id].currently_executing}

\* C2: whenever the state mutex is free, future_parts is exactly the
\* new_part_name of every executing entry together with the actual_new_part_name
\* that are set; so every executing entry's name is in it and none stays behind.
C2_FuturePartsExact ==
    mutex = "free" =>
        future_parts =
            {entries[id].new_part_name : id \in Executing}
                \cup {entries[id].actual_new_part_name : id \in
                        {e \in Executing : entries[e].actual_new_part_name # NoName}}

\* The part-producing entries that hold a handle.
Producing == {id \in DOMAIN handles : entries[id].type \in PartProducing}

\* C3 as stated: two entries that produce parts, one containing the other, are
\* never executing at the same time.
C3_NeverBoth ==
    \A a \in Producing, b \in Producing :
        a # b => ~containsName(entries[a].new_part_name, entries[b].new_part_name)

\* C3: while an entry producing part p1 is executing, selectEntryToProcess admits
\* no entry producing a part that p1 contains.
C3_ContainedNotAdmitted ==
    [][\A b \in DOMAIN entries :
          (/\ b \in DOMAIN entries'
           /\ ~entries[b].currently_executing
           /\ entries'[b].currently_executing
           /\ entries[b].type \in PartProducing)
              => \A a \in Producing :
                    ~containsName(entries[a].new_part_name,
                                  entries[b].new_part_name)]_vars

\* The entry fetching the merged part is executing, and the selection has
\* passed over the queued fetch of a part inside it.
C3_Witness ==
    \E a \in Producing, x \in 1..Len(queue) :
        /\ queue[x] # a
        /\ At(x).type = "GET_PART"
        /\ At(x).num_postponed > 0
        /\ ~At(x).currently_executing
        /\ containsName(entries[a].new_part_name, At(x).new_part_name)

\* C9: once an entry of a pull is in the queue, the local mutations hold every
\* mutation that pull listed under <root>/mutations, except those purged as
\* obsolete since; a pull whose refresh failed has inserted nothing.
C9_MutationsBeforeEntries ==
    pulled_seen \subseteq
        {mutations[j].znode_name : j \in 1..Len(mutations)} \cup purged

\* A pulled entry is queued, and the pull that put it had listed a mutation.
C9_Witness ==
    /\ \E x \in 1..Len(queue) : At(x).origin = "pull"
    /\ pulled_seen # {}
    /\ pulled_seen \subseteq {mutations[j].znode_name : j \in 1..Len(mutations)}

\* The conditions under which parts in ascending block order may be merged.
MayMerge(left, right) ==
    LET l == fromPartName(left)
        r == fromPartName(right)
    IN  /\ left # right
        /\ l.partition_id = r.partition_id
        /\ \A side \in {left, right} :
              /\ getContainingPart(virtual_parts, fromPartName(side)) = side
              /\ side # last_quorum_part
              /\ side # inprogress_quorum_part
        /\ ~\E b \in current_inserts :
              /\ b[1] = l.partition_id
              /\ l.max_block < b[2]
              /\ b[2] < r.min_block
        /\ ~\E n \in next_virtual_parts :
              /\ n[1] = l.partition_id
              /\ l.max_block + 1 <= n[2]
              /\ n[3] <= r.min_block - 1
        /\ getCurrentMutationVersion(l) = getCurrentMutationVersion(r)

\* A side is inside a broader part of virtual_parts, and nothing is tested
\* before that.
MergeAssigned(left, right) ==
    LET own(side) == getContainingPart(virtual_parts, fromPartName(side))
    IN  /\ left # right
        /\ left[1] = right[1]
        /\ own(left) # NoName
        /\ \/ own(left) # left
           \/ /\ left \notin {last_quorum_part, inprogress_quorum_part}
              /\ own(right) \notin {NoName, right}

\* C4: for left.max_block < right.min_block, canMergeParts is true exactly when
\* the names differ, the partitions agree, virtual_parts gives each side as its
\* own containing part, neither is a quorum part, no running insert and no part
\* of next_virtual_parts lies between them, and the mutation versions agree; a
\* broader containing part is reported as a merge already assigned.
C4_MergeCharacterised ==
    \A left \in SelectorParts, right \in SelectorParts :
        left[3] < right[2] =>
            /\ canMergeParts(left, right).result = MayMerge(left, right)
            /\ MergeAssigned(left, right) =>
                  canMergeParts(left, right).reason
                      = "a merge has already been assigned"

\* The selector was told that two parts with a free gap between may be merged.
C4_Witness ==
    /\ merge_call.left # NoName
    /\ merge_call.left[3] + 1 < merge_call.right[2]
    /\ merge_call.result
    /\ next_virtual_parts # virtual_parts

\* C5: canMergeParts(a, b) and canMergeParts(b, a) give the same answer for
\* every pair of parts in every state.
C5_MergeSymmetric ==
    \A a \in SelectorParts, b \in SelectorParts :
        canMergeParts(a, b).result = canMergeParts(b, a).result

\* C10: every part of virtual_parts is in next_virtual_parts or inside a part
\* of it.
C10_VirtualInNext == CoveredBy(virtual_parts, next_virtual_parts)

\* The GET_PART entries of the queue.
QueuedGets == {id \in Range(queue) : entries[id].type = "GET_PART"}

\* C11: whenever the state mutex is free, inserts_by_time holds exactly the
\* GET_PART entries of the queue, each once.
C11_InsertsByTimeExact ==
    mutex = "free" => inserts_by_time = QueuedGets

\* C12: min_unprocessed_insert_time is at most the create_time of every queued
\* GET_PART entry whose create_time is not zero.
C12_MinNotAbove ==
    \A id \in QueuedGets :
        entries[id].create_time > 0
            => min_unprocessed_insert_time <= entries[id].create_time

\* The entry is being removed by remove(zookeeper, entry): its node is gone and
\* the erasure from the queue is still to come.
MidRemoval(id) == id \in DOMAIN handles /\ handles[id] = "remove"

\* C13: the queue node of every queued entry exists, unless that entry is
\* being removed.
C13_QueuedHasNode ==
    \A id \in Range(queue) :
        entries[id].znode_name \in DOMAIN zk_queue \/ MidRemoval(id)

\* The entries removePartProducingOpsInRange(part_name) is to remove.
ToRemove(part_name, id) ==
    /\ entries[id].type \in {"GET_PART", "MERGE_PARTS", "MUTATE_PART"}
    /\ contains(fromPartName(part_name),
                fromPartName(entries[id].new_part_name))

Conflicting(x) ==
    {y \in Range(queue) :
        /\ y # x
        /\ entries[y].currently_executing
        /\ \/ /\ entries[y].type \in {"MERGE_PARTS", "GET_PART",
                                       "MUTATE_PART", "ATTACH_PART"}
              /\ contains(fromPartName(entries[x].new_part_name),
                          fromPartName(entries[y].new_part_name))
           \/ /\ entries[y].type = "CLEAR_COLUMN"
              /\ entries[y].new_part_name[1] = entries[x].new_part_name[1]}

\* C15: for every queued CLEAR_COLUMN entry, getConflictsForClearColumnCommand
\* returns exactly the other executing entries that produce a part inside the
\* entry's part or clear a column in its partition, and shouldExecuteLogEntry
\* is false exactly when there is one.
C15_ConflictsExact ==
    \A x \in Range(queue) :
        entries[x].type = "CLEAR_COLUMN"
            => /\ getConflictsForClearColumnCommand(entries[x]) = Conflicting(x)
               /\ \A cancelled \in BOOLEAN, too_big \in BOOLEAN :
                     shouldExecuteLogEntry(entries[x], cancelled, too_big)
                         <=> Conflicting(x) = {}

\* A queued CLEAR_COLUMN entry has been passed over by selectEntryToProcess
\* while an entry inside its range is executed.
C15_Witness ==
    \E x \in Range(queue) :
        /\ entries[x].type = "CLEAR_COLUMN"
        /\ ~entries[x].currently_executing
        /\ entries[x].num_postponed > 0
        /\ Conflicting(x) # {}

\* getCurrentMutationVersion of a part, by its name.
VersionOf(name) == getCurrentMutationVersion(fromPartName(name))

\* C16 as stated: over every step, purges and the emptying of the local list
\* included, getCurrentMutationVersion of a part does not decrease.
C16_VersionMonotone ==
    [][\A name \in SelectorParts : VersionOf(name)' >= VersionOf(name)]_vars

\* C16 as amended: getCurrentMutationVersion of a part does not decrease over
\* a step of updateMutations that keeps every local mutation.
C16_VersionMonotoneUnlessPurged ==
    [][Range(mutations) \subseteq Range(mutations')
          => \A name \in SelectorParts : VersionOf(name)' >= VersionOf(name)
      ]_vars

\* updateMutations has purged a mutation and loaded a newer one: the version
\* of a_2_2_0 is the newer one's block number, that of a_1_1_0 is gone.
C16_Witness ==
    /\ purged # {}
    /\ mutations # <<>>
    /\ VersionOf(P2) = 2
    /\ VersionOf(P1) = -1

\* The mutation block numbers of a part's partition.
BlockNumbersOf(name) ==
    {x.number : x \in {y \in mutations_by_partition : y.partition = name[1]}}

\* The part's current mutation version: the largest mutation block number not
\* above its data version (its min_block), or -1.
CurrentVersionOf(name) ==
    IF \E n \in BlockNumbersOf(name) : n <= name[2]
    THEN CHOOSE n \in BlockNumbersOf(name) :
             /\ n <= name[2]
             /\ \A k \in BlockNumbersOf(name) : k <= name[2] => k <= n
    ELSE -1

\* C17: canMutatePart is true exactly when the partition has a mutation,
\* virtual_parts gives the part as its own containing part and the largest
\* block number of the partition is above the part's current mutation version;
\* on true the output is that largest block number, on false the output keeps
\* the value it had.
C17_CanMutateCharacterised ==
    \A name \in SelectorParts, desired \in DesiredVersions :
        LET answer == canMutatePart(fromPartName(name), desired)
            numbers == BlockNumbersOf(name)
            may == /\ numbers # {}
                   /\ getContainingPart(virtual_parts, fromPartName(name)) = name
                   /\ \E n \in numbers :
                         /\ \A k \in numbers : k <= n
                         /\ n > CurrentVersionOf(name)
        IN  /\ answer.result = may
            /\ answer.result =>
                  /\ answer.desired_mutation_version \in numbers
                  /\ \A k \in numbers : k <= answer.desired_mutation_version
            /\ ~answer.result => answer.desired_mutation_version = desired

\* A part at version 1 of a partition with mutations up to 2 was found mutable
\* and the caller's -1 became 2, in a state where a part already at version 2
\* is refused.
C17_Witness ==
    /\ mutate_call.op = "canMutatePart"
    /\ mutate_call.result
    /\ mutate_call.part = P1
    /\ mutate_call.desired = -1
    /\ mutate_call.out = 2
    /\ canMutatePart(fromPartName(P1), -1).result
    /\ getContainingPart(virtual_parts, fromPartName(P2)) = P2
    /\ ~canMutatePart(fromPartName(P2), -1).result
    /\ BlockNumbersOf(P0) = {1, 2}

\* C18: getMutationCommands returns, in increasing version order, the commands
\* of exactly the mutations with data_version < v <= desired when desired is a
\* block number of the partition (nothing when desired <= data_version), and
\* fails when the partition has no mutations or desired is not among them.
C18_CommandsExact ==
    [][(mutate_call'.op = "getMutationCommands" /\ mutate_call' # mutate_call) =>
         LET call == mutate_call'
             numbers == BlockNumbersOf(call.part)
             wanted == {x \in mutations_by_partition :
                           /\ x.partition = call.part[1]
                           /\ x.number > call.part[2]
                           /\ x.number <= call.desired}
             got == call.commands
             version(c) == IF \E x \in wanted : x.mutation = c.mutation
                           THEN (CHOOSE x \in wanted :
                                     x.mutation = c.mutation).number
                           ELSE -1
         IN  IF numbers = {} \/ call.desired \notin numbers
             THEN ~call.result /\ got = <<>>
             ELSE /\ call.result
                  /\ \A x \in wanted : \A n \in {1, 2} :
                        \E i \in 1..Len(got) :
                            got[i] = [mutation |-> x.mutation, command |-> n]
                  /\ Len(got) = 2 * Cardinality(wanted)
                  /\ \A i \in 1..Len(got) : \A j \in 1..Len(got) :
                        i < j =>
                           \/ version(got[i]) < version(got[j])
                           \/ /\ got[i].mutation = got[j].mutation
                              /\ got[i].command < got[j].command
    ]_vars

\* C19: a load that follows a load which returned, with the coordinator as it
\* was, leaves the queue as the first left it (same entries, same order, no
\* znode twice) and returns false.
C19_LoadIdempotent ==
    [][(ld.pc = "idle" /\ ld.result \in {"updated", "nothing"}) =>
          /\ queue' = queue
          /\ entries' = entries
          /\ ld'.pc = "idle"
          /\ ld'.result = "nothing"
          /\ \A x \in 1..Len(queue') : \A y \in 1..Len(queue') :
                entries'[queue'[x]].znode_name = entries'[queue'[y]].znode_name
                    => x = y
    ]_vars

\* The second load has returned false on a queue of two loaded entries, the
\* DROP_RANGE of the later node standing first.
C19_Witness ==
    /\ ld.pc = "idle"
    /\ ld.result = "nothing"
    /\ Len(queue) = 2
    /\ DOMAIN zk_queue = {0, 1}
    /\ entries[queue[1]].type = "DROP_RANGE"
    /\ entries[queue[1]].znode_name = 1
    /\ entries[queue[2]].znode_name = 0

\* The threads whose next step is a request to the coordinator: load about to
\* take the answer of a get, pullLogsToQueue at one of its reads or writes,
\* remove(part_name) at its tryRemove.
Requesting ==
    {t \in {"load", "pull", "rm"} :
        \/ t = "load" /\ ld.pc = "get"
        \/ t = "pull" /\ pull.pc \in {"list", "pointer", "fetch", "multi",
                                       "temp", "blocks", "lookahead"}
        \/ t = "rm" /\ rm.pc = "zk"}

\* C20: no thread issues a coordinator request while it holds the state
\* mutex.
C20_NoRequestUnderMutex == mutex \notin Requesting

\* C21: virtual_parts is written only by a thread that holds the state mutex:
\* no step changes it while another thread is inside a block under the mutex.
C21_VirtualPartsUnderMutex ==
    [][virtual_parts' # virtual_parts => mutex = "free"]_vars

\* The queue holds an entry for the j-th node the pulls created, with the
\* znode name of its create response and the fields of its log entry.
InsertedCreated(j) ==
    \E x \in 1..Len(queue) :
        /\ entries[queue[x]].znode_name = j - 1
        /\ entries[queue[x]].origin = "pull"
        /\ entries[queue[x]].type = zk_log[created[j] + 1].type
        /\ entries[queue[x]].new_part_name = zk_log[created[j] + 1].new_part_name

\* C22: once the block that follows a committed multi-request is over, every
\* entry of every committed chunk is in the queue under the znode name of its
\* create response, or the process has terminated.
C22_CommittedInsertedOrTerminated ==
    pull.pc \notin {"ram", "terminated"} =>
        \A j \in 1..Len(created) : InsertedCreated(j)

\* The process terminated after the first entry of a committed chunk of two
\* was inserted: the second has its queue node and is not in the queue.
C22_Witness ==
    /\ pull.pc = "terminated"
    /\ Len(created) = 2
    /\ DOMAIN zk_queue = {0, 1}
    /\ InsertedCreated(1)
    /\ ~InsertedCreated(2)

\* The call is past its copy loop.
PastCopying == pull.pc \in {"temp", "blocks", "lookahead", "finish", "return"}

\* The step that ends the call with the failure UNEXPECTED_NODE_IN_ZOOKEEPER.
AbortsUnexpected ==
    /\ pull.pc = "fetch"
    /\ pull'.pc = "idle"
    /\ pull'.error = "UNEXPECTED_NODE_IN_ZOOKEEPER"

\* The call's step at a chunk whose last name is a foreign child ends the
\* call, and with UNEXPECTED_NODE_IN_ZOOKEEPER only there.
AbortsAtForeign ==
    /\ (pull.pc = "fetch" /\ ~startsWithLog(LastEntry(pull)) /\ pull' # pull)
          => pull'.pc = "idle"
    /\ AbortsUnexpected => ~startsWithLog(LastEntry(pull))

\* A call that found a foreign child at or after min_log_entry does not get
\* past its copy loop, no multi-request copies such a child, and the chunk
\* that holds it ends the call with UNEXPECTED_NODE_IN_ZOOKEEPER.
C23_ForeignNeverCopied ==
    /\ PastCopying => \A n \in Range(pull.log_entries) : startsWithLog(n)
    /\ pull.pc \in {"parse", "multi", "ram"} =>
           \A n \in Range(Chunk(pull)) : startsWithLog(n)

\* C23 as stated: a foreign child at or after min_log_entry aborts the call
\* with UNEXPECTED_NODE_IN_ZOOKEEPER, is never copied, and the aborted call
\* has copied no entry and left log_pointer as it found it.
C23_AbortCopiesNothing ==
    /\ []C23_ForeignNeverCopied
    /\ [][AbortsAtForeign]_vars
    /\ [][AbortsUnexpected =>
            /\ pull.i = 0
            /\ zk_log_pointer' = pull.index_str]_vars

\* C23, amended: the aborted call has copied exactly the chunks before the
\* one that holds the foreign child, and log_pointer stands behind the last
\* of them (at its initial value when there is none).
C23_AbortKeepsEarlierChunks ==
    /\ []C23_ForeignNeverCopied
    /\ [][AbortsAtForeign]_vars
    /\ [][AbortsUnexpected =>
            /\ pull.i % MAX_MULTI_OPS = 0
            /\ created' = created
            /\ zk_queue' = zk_queue
            /\ \A j \in 1..pull.i :
                   /\ startsWithLog(pull.log_entries[j])
                   /\ Count(created, NameIndex(pull.log_entries[j])) = 1
            /\ zk_log_pointer' =
                   IF pull.i > 0
                   THEN toString(NameIndex(pull.log_entries[pull.i]) + 1)
                   ELSE IF pull.index_str = <<>> THEN toString(pull.index)
                   ELSE pull.index_str]_vars

\* A call that met 101 log entries and a foreign child has failed with
\* UNEXPECTED_NODE_IN_ZOOKEEPER after its first chunk was committed.
C23_Witness ==
    /\ pull.pc = "idle"
    /\ pull.error = "UNEXPECTED_NODE_IN_ZOOKEEPER"
    /\ pull.i = MAX_MULTI_OPS
    /\ zk_log_junk
    /\ Len(created) = MAX_MULTI_OPS
    /\ zk_log_pointer = toString(MAX_MULTI_OPS)
    /\ Len(zk_log) = LongLogLen

\* C24: processEntry takes its entry out of the queue only after func
\* returned true and the entry's node was removed; an exception of func or of
\* the removal is saved on the entry and makes processEntry return false
\* without touching the queue; an entry whose func returned false or threw is
\* left in the queue by processEntry.
C24_ProcessEntryOutcome ==
    [][\A id \in DOMAIN handles :
          /\ (id \in DOMAIN handles' /\ handles'[id] # handles[id]) =>
                /\ handles'[id] = "remove" =>
                      /\ handles[id] = "exec"
                      /\ entries[id].znode_name \notin DOMAIN zk_queue'
                      /\ queue' = queue
                /\ handles'[id] = "done" =>
                      /\ handles[id] = "remove"
                      /\ id \notin Range(queue')
                      /\ Erase(queue, id) = queue'
                /\ handles'[id] = "failed" =>
                      /\ handles[id] \in {"exec", "done"}
                      /\ entries'[id].exception
                      /\ queue' = queue
          /\ (id \notin DOMAIN handles' /\ handles[id] \in {"exec", "failed"}) =>
                queue' = queue
      ]_vars

\* processEntry returned false for an entry whose func threw: the exception
\* is on the entry, which is still in the queue with its node.
C24_Witness ==
    \E id \in DOMAIN handles :
        /\ handles[id] = "failed"
        /\ entries[id].exception
        /\ id \in Range(queue)
        /\ entries[id].znode_name \in DOMAIN zk_queue

\* The place of entry id in the queue.
PlaceOf(id) == CHOOSE x \in 1..Len(queue) : queue[x] = id

\* The entries before place x that selectEntryToProcess examines.
ExaminedBefore(x) ==
    {queue[z] : z \in {y \in 1..(x - 1) : ~entries[queue[y]].currently_executing}}

\* Entry id is the first entry that is not executing and passes
\* shouldExecuteLogEntry, for some answers of the merger.
FirstQualifying(id) ==
    \E cancelled \in BOOLEAN, big \in SUBSET Range(queue) :
        /\ shouldExecuteLogEntry(entries[id], cancelled, id \in big)
        /\ \A other \in ExaminedBefore(PlaceOf(id)) :
              ~shouldExecuteLogEntry(entries[other], cancelled, other \in big)

\* No entry qualifies, for some answers of the merger.
NoneQualifying ==
    \E cancelled \in BOOLEAN, big \in SUBSET Range(queue) :
        \A other \in ExaminedBefore(Len(queue) + 1) :
            ~shouldExecuteLogEntry(entries[other], cancelled, other \in big)

\* The step tags entry id.
Tags(id) ==
    /\ id \in Range(queue)
    /\ ~entries[id].currently_executing
    /\ id \in DOMAIN entries'
    /\ entries'[id].currently_executing

\* The step only postpones entries.
OnlyPostpones ==
    /\ DOMAIN entries' = DOMAIN entries
    /\ \A id \in DOMAIN entries : ~Tags(id)
    /\ \E id \in DOMAIN entries :
          entries'[id].num_postponed # entries[id].num_postponed

\* What a selectEntryToProcess call that picks entry id does to the queue and
\* to the entries it passes over.
SplicesAndPostpones(id) ==
    /\ FirstQualifying(id)
    /\ queue' = Append(Without(queue, PlaceOf(id)), id)
    /\ \A z \in 1..Len(queue) :
          LET other == queue[z]
          IN  /\ other \in ExaminedBefore(PlaceOf(id)) =>
                    entries'[other] = [entries[other] EXCEPT
                                         !.num_postponed = @ + 1]
              /\ (other # id /\ other \notin ExaminedBefore(PlaceOf(id))) =>
                    entries'[other] = entries[other]

\* C25: selectEntryToProcess returns, with a handle, the first entry that is
\* not executing and passes shouldExecuteLogEntry, moved to the end of the
\* queue and tagged; the entries examined before it have num_postponed
\* raised by one, all other entries are as before and in their order; when
\* no entry qualifies the queue, future_parts and the handles are unchanged.
C25_SelectsFirstQualifying ==
    [][/\ \A id \in DOMAIN entries : Tags(id) =>
              /\ SplicesAndPostpones(id)
              /\ id \in DOMAIN handles'
              /\ handles'[id] = "exec"
              /\ entries[id].new_part_name \in future_parts'
       /\ OnlyPostpones =>
              /\ NoneQualifying
              /\ queue' = queue
              /\ future_parts' = future_parts
              /\ handles' = handles
              /\ \A id \in ExaminedBefore(Len(queue) + 1) :
                    entries'[id] = [entries[id] EXCEPT !.num_postponed = @ + 1]
      ]_vars

\* The same without the handle: what the call does to the queue and to the
\* entries, whether or not the constructor of the handle throws.
C25_SpliceAndPostpone ==
    [][/\ \A id \in DOMAIN entries : Tags(id) => SplicesAndPostpones(id)
       /\ OnlyPostpones =>
              /\ NoneQualifying
              /\ queue' = queue
              /\ future_parts' = future_parts
              /\ handles' = handles
      ]_vars

\* The queued merges and mutations that list part_name, by place.
Listing(part_name) ==
    {x \in 1..Len(queue) :
        /\ At(x).type \in {"MERGE_PARTS", "MUTATE_PART"}
        /\ part_name \in Range(At(x).parts_to_merge)}

\* The entries the call with part_name has to move: they precede the first
\* listing entry and produce one of its parts.
SiblingProducers(part_name) ==
    {queue[x] : x \in
        {y \in 1..Len(queue) :
            /\ \A z \in Listing(part_name) : y < z
            /\ At(y).type \in {"MERGE_PARTS", "GET_PART", "MUTATE_PART"}
            /\ At(y).new_part_name \in parts_for_merge(part_name)}}

\* The value returned is the parts_to_merge of the first listing entry, and
\* empty when no entry lists part_name.
C26_ReturnsSiblings ==
    \A part_name \in SiblingNames :
        /\ Listing(part_name) = {} => parts_for_merge(part_name) = {}
        /\ \A x \in Listing(part_name) :
              (\A z \in Listing(part_name) : x <= z) =>
                  parts_for_merge(part_name) = Range(At(x).parts_to_merge)

\* A step that reorders the queue without tagging an entry.
Reorders ==
    /\ queue' # queue
    /\ Len(queue') = Len(queue)
    /\ \A id \in DOMAIN entries : ~Tags(id)

\* C26: moveSiblingPartsForMergeToEndOfQueue(part_name) returns the
\* parts_to_merge of the first queued merge or mutation listing part_name
\* (nothing when there is none, the queue staying as it is) and moves exactly
\* the MERGE_PARTS, GET_PART and MUTATE_PART entries before that entry which
\* produce one of these parts to the end, in their order; the other entries
\* keep their order and no entry enters or leaves the queue.
C26_SiblingsMovedToEnd ==
    /\ []C26_ReturnsSiblings
    /\ [][Reorders =>
             \E part_name \in SiblingNames :
                 /\ parts_for_merge(part_name) # {}
                 /\ queue' = SelectSeq(queue, LAMBDA id :
                                           id \notin SiblingProducers(part_name))
                               \o SelectSeq(queue, LAMBDA id :
                                                id \in SiblingProducers(part_name))
                 /\ Range(queue') = Range(queue)
          ]_vars

\* Two producers of the merge's parts stood before the merge and have been
\* moved behind it, in their order.
C26_Witness ==
    /\ Len(queue) = 3
    /\ At(1).type = "MERGE_PARTS"
    /\ parts_for_merge(P0) = {P0, P1}
    /\ At(2).moved /\ At(3).moved
    /\ At(2).new_part_name = P0 /\ At(3).new_part_name = P1
    /\ At(2).znode_name < At(3).znode_name
    /\ At(1).znode_name > At(3).znode_name

\* The part name is covered by a part of the set.
Covered(set, name) == getContainingPart(set, fromPartName(name)) # NoName

\* pullLogsToQueue returns normally.
PullReturns == pull.pc = "return" /\ pull'.pc = "idle"

\* C27: when pullLogsToQueue returns normally, virtual_parts is what
\* next_virtual_parts was before the lookahead names were added; it covers the
\* new_part_name of every entry the pulls have copied; each of its names is an
\* initial local part, a name given to disableMergesInRange or the
\* new_part_name of an inserted entry; a name seen only in the lookahead is in
\* next_virtual_parts and not in virtual_parts.
C27_VirtualPartsAtReturn ==
    [][PullReturns =>
          /\ virtual_parts' = next_virtual_parts
          /\ \A j \in 1..Len(created) :
                Covered(virtual_parts',
                        LogEntry_parse(zk_log[created[j] + 1]).new_part_name)
          /\ \A name \in virtual_parts' :
                \/ \E parts \in LocalParts : name \in Range(parts)
                \/ name \in DisabledRanges
                \/ \E id \in Range(queue) : entries[id].new_part_name = name
          /\ \A name \in Range(pull.new_virtual_parts) :
                ~Covered(next_virtual_parts, name) =>
                    /\ Covered(next_virtual_parts', name)
                    /\ ~Covered(virtual_parts', name)
      ]_vars

\* The part holds block number b of the partition.
HoldsBlock(name, partition_id, b) ==
    /\ fromPartName(name).partition_id = partition_id
    /\ fromPartName(name).min_block <= b
    /\ b <= fromPartName(name).max_block

\* C28: when canMergeParts(left, right) is true with left.max_block <
\* right.min_block, every block number strictly between them is settled: an
\* insert holding a live lock for it is recorded in current_inserts, and a
\* committed log entry for a part holding it is known to next_virtual_parts.
C28_NoInsertInGap ==
    mutex = "free" =>
        \A left \in SelectorParts, right \in SelectorParts :
            LET l == fromPartName(left)
                r == fromPartName(right)
            IN  (canMergeParts(left, right).result /\ l.max_block < r.min_block) =>
                    \A b \in (l.max_block + 1)..(r.min_block - 1) :
                        /\ b \in zk_temp =>
                              <<l.partition_id, b>> \in current_inserts
                        /\ \A j \in 1..Len(zk_log) :
                              HoldsBlock(zk_log[j].new_part_name,
                                         l.partition_id, b) =>
                                  Covered(next_virtual_parts,
                                          zk_log[j].new_part_name)

\* The merge of a_0_0_0 and a_2_2_0 is allowed: the insert of block number 1
\* was abandoned.
C28_Witness ==
    /\ mutex = "free"
    /\ canMergeParts(P0, P2).result
    /\ [partition |-> "a", number |-> 1] \in zk_block_numbers
    /\ 1 \notin zk_temp
    /\ Len(zk_log) = 2

\* The parts strictly inside a queued entry's new_part_name.
PlannedInside(id) ==
    {p \in SelectorParts :
        /\ p # entries[id].new_part_name
        /\ containsName(entries[id].new_part_name, p)}

\* Neither canMergeParts with p on a side nor canMutatePart(p) says yes.
NeverChosen(p) ==
    /\ \A other \in SelectorParts :
          /\ ~canMergeParts(p, other).result
          /\ ~canMergeParts(other, p).result
    /\ \A desired \in DesiredVersions :
          ~canMutatePart(fromPartName(p), desired).result

\* C29 as stated: in every state, a part strictly inside the new_part_name of
\* a queued entry is refused by canMergeParts and canMutatePart.
C29_PlannedNeverChosen ==
    mutex = "free" =>
        \A id \in Range(queue) : \A p \in PlannedInside(id) : NeverChosen(p)

\* The same for the entries whose new_part_name virtual_parts covers.
C29_CoveredNeverChosen ==
    mutex = "free" =>
        \A id \in Range(queue) :
            Covered(virtual_parts, entries[id].new_part_name) =>
                \A p \in PlannedInside(id) : NeverChosen(p)

\* C29: a part strictly inside the new_part_name of a queued entry is refused
\* by canMergeParts and canMutatePart from the moment virtual_parts covers
\* that name, which is the case when a pullLogsToQueue returns with the entry
\* in the queue and stays so while the entry is queued.
C29_ChosenUntilPullReturns ==
    /\ []C29_CoveredNeverChosen
    /\ [][PullReturns =>
             \A id \in Range(queue') :
                 Covered(virtual_parts', entries'[id].new_part_name)]_vars
    /\ [][\A id \in Range(queue) \cap Range(queue') :
             Covered(virtual_parts, entries[id].new_part_name) =>
                 Covered(virtual_parts', entries'[id].new_part_name)]_vars

\* A merge of a_0_0_0 and a_1_1_0 is queued and known to virtual_parts, a
\* mutation of the partition is loaded, and both parts are refused.
C29_Witness ==
    /\ mutex = "free"
    /\ pull.pc = "idle"
    /\ P0 \in virtual_parts \/ P01 \in virtual_parts
    /\ \E id \in Range(queue) :
          /\ entries[id].new_part_name = P01
          /\ Covered(virtual_parts, P01)
    /\ InPartition("a") # {}
    /\ NeverChosen(P0)

\* C30: while a CLEAR_COLUMN entry is executing, no MERGE_PARTS, GET_PART,
\* MUTATE_PART or ATTACH_PART entry producing a part inside its new_part_name
\* and no other CLEAR_COLUMN entry of its partition is executing, whether or
\* not the entries are still in the queue.
C30_ClearColumnAlone ==
    \A clear \in DOMAIN entries, other \in DOMAIN entries :
        (/\ clear # other
         /\ entries[clear].type = "CLEAR_COLUMN"
         /\ entries[clear].currently_executing
         /\ entries[other].currently_executing) =>
            /\ entries[other].type \in PartProducing =>
                  ~containsName(entries[clear].new_part_name,
                                entries[other].new_part_name)
            /\ entries[other].type = "CLEAR_COLUMN" =>
                  fromPartName(entries[other].new_part_name).partition_id
                      # fromPartName(entries[clear].new_part_name).partition_id

\* Every entry marked as executing has a live handle.
ExecutingHasHandle ==
    \A id \in DOMAIN entries :
        entries[id].currently_executing => id \in DOMAIN handles

\* C31: selectEntryToProcess never tags an entry, of whatever type, whose
\* new_part_name is already in future_parts, so the duplicate-tag error of
\* the handle's constructor does not occur and no entry is left with
\* currently_executing = true without a live handle.
C31_NoDuplicateTag ==
    /\ [][\A id \in DOMAIN entries :
             Tags(id) => entries[id].new_part_name \notin future_parts]_vars
    /\ []ExecutingHasHandle

\* C32: no two elements of the in-memory queue have the same znode_name,
\* whatever the interleaving of load, pullLogsToQueue and the removals; a load
\* between the commit of a chunk and its insertion makes no node appear twice.
C32_ZnodeNamesDistinct ==
    \A x \in 1..Len(queue) : \A y \in 1..Len(queue) :
        entries[queue[x]].znode_name = entries[queue[y]].znode_name => x = y

\* The executors at work on a loaded queue: selectEntryToProcess is called
\* again and again and every handle is released in the end.
SelectBodies == {GetP0, GetP1, MergeP01, DropA}

NextSelect ==
    \/ LoadBegin
    \/ LoadInsert
    \/ SelectEntryToProcess
    \/ ReleaseHandle
    \/ MoveSiblingPartsForMergeToEndOfQueue

SpecSelect ==
    /\ \E nodes \in [1..MaxSiblingNodes -> SelectBodies] :
          InitNodes(<<>>, <<>>, nodes)
    /\ [][NextSelect]_vars
    /\ WF_vars(SelectEntryToProcess)
    /\ WF_vars(ReleaseHandle)

\* Entry id is queued and has passed shouldExecuteLogEntry whenever it was
\* examined.
Ready(id) ==
    /\ id \in DOMAIN entries
    /\ id \in Range(queue)
    /\ entries[id].num_postponed = 0

\* Entry id has been selected: it is tagged as executing.
Selected(id) == id \in DOMAIN entries /\ entries[id].currently_executing

\* Entry id is put behind other entries without being selected and without an
\* insertion: moveSiblingPartsForMergeToEndOfQueue has moved it.
SetAside(id) ==
    /\ id \in Range(queue)
    /\ id \in Range(queue')
    /\ Len(queue') = Len(queue)
    /\ ~Tags(id)
    /\ \E x \in 1..Len(queue) : \E y \in 1..Len(queue) :
          queue[x] = id /\ queue'[y] = id /\ x < y

\* C33 as stated: with selectEntryToProcess called repeatedly and every handle
\* released in the end, an entry that stays in the queue and passes
\* shouldExecuteLogEntry whenever it is examined is eventually selected.
C33_NoStarvation ==
    \A id \in 1..MaxSiblingNodes :
        (<>[]Ready(id) /\ []<><<SelectEntryToProcess>>_vars) => <>Selected(id)

\* C33: the same for an entry that moveSiblingPartsForMergeToEndOfQueue moves
\* to the end of the queue only finitely often.
C33_SelectedUnlessSetAside ==
    \A id \in 1..MaxSiblingNodes :
        (/\ <>[]Ready(id)
         /\ []<><<SelectEntryToProcess>>_vars
         /\ <>[][~SetAside(id)]_vars) => []<>Selected(id)

\* The entry loaded second was selected after the entry before it, which was
\* moved behind it and released; none was ever passed over.
C33_Witness ==
    /\ queue = <<3, 1, 2>>
    /\ Ready(1) /\ Ready(2) /\ Ready(3)
    /\ ~Selected(1) /\ Selected(2) /\ ~Selected(3)
    /\ DOMAIN handles = {2}

\* The entries mutations_by_partition should hold for the local mutations list.
IndexOf(list) ==
    UNION {{[partition |-> kv[1], number |-> kv[2],
             mutation |-> list[j].znode_name] : kv \in list[j].block_numbers} :
           j \in 1..Len(list)}

\* C34: whatever updateMutations calls have run, mutations_by_partition holds
\* exactly one entry per (partition, block number) pair of every mutation of
\* the local list, referring to that mutation, and none for a purged mutation;
\* the local list is in strictly increasing znode_name order.
C34_IndexMatchesMutations ==
    /\ mutations_by_partition = IndexOf(mutations)
    /\ \A x \in mutations_by_partition : \A y \in mutations_by_partition :
          (x.partition = y.partition /\ x.number = y.number) => x = y
    /\ \A x \in mutations_by_partition : x.mutation \notin purged
    /\ \A i \in 1..Len(mutations) : \A j \in 1..Len(mutations) :
          i < j => mutations[i].znode_name < mutations[j].znode_name

\* The first mutation was loaded and purged after its node was cleaned up;
\* the second one is in the list and in the index, and a call has returned.
C34_Witness ==
    /\ um.owner = "none"
    /\ purged = {0}
    /\ Len(mutations) = 1
    /\ mutations[1].znode_name = 1
    /\ mutations_by_partition # {}
=============================================================================
